---------------------------- MODULE Spec2Model ----------------------------
(***************************************************************************)
(* Verification model of the invoice extraction service (invproc):         *)
(*   - InMemoryExtractCache (extract_cache.py): TTL + LRU store behind one *)
(*     lock, called from several worker threads;                           *)
(*   - run_extract_pipeline (services/extract_service.py) and the stages   *)
(*     it sequences;                                                       *)
(*   - InvoiceImportService.import_rows (import_service.py) over           *)
(*     InMemoryInvoiceImportRepository (repositories/memory.py).           *)
(*                                                                         *)
(* Units.  Python floats are modelled by integers: the clock and TTLs in   *)
(* whole seconds, quantities and weights in thousandths, prices in         *)
(* hundredths, confidence scores in ten-thousandths.  None is <<>> and a   *)
(* value x that may be None is <<x>>.  sha256 and sha1 are modelled as     *)
(* collision free: a digest is the tagged tuple of what was hashed.        *)
(***************************************************************************)
EXTENDS Integers, Sequences, FiniteSets, TLC

\* ------------------------------------------------------------------------
\* Bounds of the model
\* ------------------------------------------------------------------------
NumKeys == 2
MaxClock == 1
MaxTtl == 2
MaxCap == 2
MaxCalls == 2
LruKeys == 3
LruCap == 3
LruClock == 3
LruCalls == 4
MaxFlips == 1
NumFiles == 1
PipeClock == 1
MaxRequests == 2
MaxImports == 3
ImportClock == 1
MaxProducts == 2
MaxRows == 2
MaxPreviews == 1
MaxPreviewImports == 2
\* direct calls made on one invoice object
MaxDirectCalls == 3
\* words on a page handed to _generate_text_grid, and the largest top among them
MaxWords == 3
MaxTop == 4
\* pages of a PDF handed to extract_content
MaxPages == 3

\* two worker threads share the cache
Threads == {1, 2}
Keys == 1..NumKeys
Payloads == {1, 2}
NoThread == 0

VARIABLES
    clock,        \* time.time(), advanced by the environment
    entries,      \* InMemoryExtractCache._entries (OrderedDict: oldest first)
    ttl_sec,      \* InMemoryExtractCache._ttl_sec
    max_entries,  \* InMemoryExtractCache._max_entries
    lock,         \* holder of InMemoryExtractCache._lock, NoThread if free
    tpc,          \* per thread: position inside the cache method it runs
    tcall,        \* per thread: the call in progress
    tnow,         \* per thread: the local variable `now`
    tlocal,       \* per thread: the local variable `entry` of get
    tret,         \* per thread: the value returned by the call
    tgone,        \* per thread: the call's key was absent from _entries when it left
    shadow,       \* the cache as the calls applied one at a time leave it
    shadowRet,    \* per thread: what the call returns when applied on its own
    calls,        \* number of calls the threads have started
    lcall,        \* single caller: the last call made and what it found
    accessLog,    \* single caller: keys by last access (set, successful get), most recent last
    lastGet,      \* single caller: <<k>> when the most recent access was a successful get of k
    lcalls,       \* single caller: number of calls made
    preq,         \* pipeline: the request in progress [file, config]
    ppc,          \* pipeline: the stage about to run
    trace,        \* pipeline: the stages run so far in this request
    llmCalls,     \* pipeline: parse_with_llm calls made by this request
    inv,          \* pipeline: the local variable invoice_data
    cacheKey,     \* pipeline: the local variable cache_key
    cacheStatus,  \* pipeline: the local variable cache_status
    result,       \* pipeline: what the request returned or raised
    nreq,         \* pipeline: number of requests started
    liveAtLookup, \* pipeline: <<payload>> of the unexpired entry cache.get met, else <<>>
    cacheAtStart, \* pipeline: the cache when the request started
    afterLookup,  \* pipeline: the cache entries when the lookup (if any) was over
    returned,     \* per cache key: the invoice returned by the run that last wrote it
    okInvoices,   \* per cache key: the invoices returned by completed runs that were not hits
    seen,         \* <<file, signature fields>> of the earlier requests with caching enabled
    fresh,        \* pipeline: this request's <<file, signature fields>> was not in seen
    prev,         \* pipeline: the previous request and how it ended
    products,     \* repository: _products, in insertion order
    products_by_barcode, \* repository: _products_by_barcode
    movements,    \* repository: _movements, in insertion order
    idempotency,  \* repository: _idempotency
    product_seq,  \* repository: _product_seq
    movement_seq, \* repository: _movement_seq
    imp,          \* per importer thread: the locals of the import_rows call it runs
    icalls,       \* import_rows calls started
    applied,      \* the repository writes made, each with the call, key, hash and row it was for
    completed,    \* key, hash and response of the import_rows calls that stored their response
    cfg,          \* InvoiceImportService.config: fx_lei_to_eur, transport_rate_per_kg
    pv,           \* the locals of the preview_pricing call in progress
    pvlog,        \* preview_pricing: compute_pricing / repository calls and results, by row
    pcalls,       \* preview_pricing calls started
    probe,        \* a direct call of compute_pricing: its arguments and outcome
    fin,          \* _normalize_invoice_payload: the payload it is given
    fout          \* _normalize_invoice_payload: what it returned or raised

cacheVars == <<entries, ttl_sec, max_entries>>
threadVars == <<lock, tpc, tcall, tnow, tlocal, tret, tgone, shadow, shadowRet, calls>>
lruVars == <<lcall, accessLog, lastGet, lcalls>>
pipeVars == <<preq, ppc, trace, llmCalls, inv, cacheKey, cacheStatus, result, nreq,
              liveAtLookup, cacheAtStart, afterLookup, returned, okInvoices, seen, fresh, prev>>
importVars == <<products, products_by_barcode, movements, idempotency, product_seq, movement_seq,
                imp, icalls, applied, completed>>
previewVars == <<cfg, pv, pvlog, pcalls, probe>>
pureVars == <<fin, fout>>
extraVars == <<previewVars, pureVars>>
vars == <<clock, cacheVars, threadVars, lruVars, pipeVars, importVars, extraVars>>

\* ------------------------------------------------------------------------
\* OrderedDict[str, ExtractCacheEntry]: a sequence of entries, oldest first
\* ------------------------------------------------------------------------
KeysOf(es) == {es[i].key : i \in DOMAIN es}

\* OrderedDict.get(key): <<entry>> if present, <<>> for None
Lookup(es, k) == SelectSeq(es, LAMBDA e : e.key = k)

\* OrderedDict.pop(key, None)
Pop(es, k) == SelectSeq(es, LAMBDA e : e.key # k)

\* OrderedDict.__setitem__: an existing key keeps its position, a new one goes last
Store(es, e) ==
    IF e.key \in KeysOf(es)
    THEN [i \in DOMAIN es |-> IF es[i].key = e.key THEN e ELSE es[i]]
    ELSE Append(es, e)

MoveToEndNoop(es, k) == es

\* OrderedDict.move_to_end(key)
MoveToEnd(es, k) ==
    IF k \in KeysOf(es) THEN Pop(es, k) \o Lookup(es, k) ELSE es

ExpiredStrict(e, now) == e.expires_at < now

\* the expiry test `entry.expires_at <= now`
Expired(e, now) == e.expires_at <= now

\* _prune_expired_locked
PruneExpiredLocked(es, now) == SelectSeq(es, LAMBDA e : ~Expired(e, now))

PruneCapacityNewestFirst(es, cap) ==
    IF Len(es) > cap THEN SubSeq(es, 1, cap) ELSE es

RECURSIVE PruneCapacityLocked(_, _)
\* _prune_capacity_locked: popitem(last=False) while over capacity
PruneCapacityLocked(es, cap) ==
    IF Len(es) > cap /\ Len(es) > 0
    THEN PruneCapacityLocked(Tail(es), cap)
    ELSE es

NewEntry(k, p, now, ttl) ==
    [key |-> k, payload |-> p, expires_at |-> now + ttl, hit_count |-> 0]

\* ------------------------------------------------------------------------
\* The four public methods, each as one atomic step on a cache record
\* [entries, ttl_sec, max_entries]; the result is [cache, ret], ret being
\* <<payload>> or <<>> (None).
\* ------------------------------------------------------------------------
CacheGet(c, k, now) ==
    LET found == Lookup(c.entries, k) IN
    IF found = <<>> THEN [cache |-> c, ret |-> <<>>]
    ELSE IF Expired(found[1], now)
    THEN [cache |-> [c EXCEPT !.entries = Pop(c.entries, k)], ret |-> <<>>]
    ELSE LET updated == [found[1] EXCEPT !.hit_count = @ + 1] IN
         [cache |-> [c EXCEPT !.entries = MoveToEnd(Store(c.entries, updated), k)],
          ret |-> <<updated.payload>>]

CacheSetUnpruned(c, k, p, now) ==
    LET pruned == PruneExpiredLocked(c.entries, now)
        stored == Store(pruned, NewEntry(k, p, now, c.ttl_sec))
    IN [cache |-> [c EXCEPT !.entries = MoveToEnd(stored, k)], ret |-> <<>>]

CacheSet(c, k, p, now) ==
    LET pruned == PruneExpiredLocked(c.entries, now)
        stored == Store(pruned, NewEntry(k, p, now, c.ttl_sec))
        moved == MoveToEnd(stored, k)
    IN [cache |-> [c EXCEPT !.entries = PruneCapacityLocked(moved, c.max_entries)],
        ret |-> <<>>]

CacheConfigure(c, ttl, cap, now) ==
    [cache |-> [entries |-> PruneCapacityLocked(PruneExpiredLocked(c.entries, now), cap),
                ttl_sec |-> ttl, max_entries |-> cap],
     ret |-> <<>>]

CacheReset(c) == [cache |-> [c EXCEPT !.entries = <<>>], ret |-> <<>>]

\* ------------------------------------------------------------------------
\* Worker threads calling the cache: every statement under `with self._lock`
\* is a step of its own, `now = time.time()` is read before the lock is taken.
\* ------------------------------------------------------------------------
NoCall == [op |-> "none", key |-> 0, payload |-> 0, ttl_sec |-> 0, max_entries |-> 0]

CacheCalls ==
    {[op |-> "get", key |-> k, payload |-> 0, ttl_sec |-> 0, max_entries |-> 0] :
        k \in Keys}
    \cup {[op |-> "set", key |-> k, payload |-> p, ttl_sec |-> 0, max_entries |-> 0] :
        k \in Keys, p \in Payloads}
    \cup {[op |-> "configure", key |-> 0, payload |-> 0, ttl_sec |-> t, max_entries |-> m] :
        t \in 1..MaxTtl, m \in 1..MaxCap}
    \cup {[op |-> "reset", key |-> 0, payload |-> 0, ttl_sec |-> 0, max_entries |-> 0]}

LockAlwaysAvailable == TRUE

\* threading.Lock: `with self._lock` blocks while another thread holds it
LockAvailable == lock = NoThread

CacheRecord == [entries |-> entries, ttl_sec |-> ttl_sec, max_entries |-> max_entries]

\* the call of thread t applied in one piece to the cache record c
ApplyCall(c, call, now) ==
    CASE call.op = "get" -> CacheGet(c, call.key, now)
      [] call.op = "set" -> CacheSet(c, call.key, call.payload, now)
      [] call.op = "configure" -> CacheConfigure(c, call.ttl_sec, call.max_entries, now)
      [] OTHER -> CacheReset(c)

ThreadCall(t) ==
    /\ tpc[t] = "idle"
    /\ calls < MaxCalls
    /\ \E c \in CacheCalls :
        /\ tcall' = [tcall EXCEPT ![t] = c]
        /\ tpc' = [tpc EXCEPT ![t] = IF c.op \in {"get", "set"} THEN "sample" ELSE "acquire"]
    /\ calls' = calls + 1
    /\ UNCHANGED <<clock, cacheVars, lock, tnow, tlocal, tret, tgone, shadow, shadowRet, lruVars, pipeVars, importVars, extraVars>>

\* get/set: now = time.time()
ThreadSample(t) ==
    /\ tpc[t] = "sample"
    /\ tnow' = [tnow EXCEPT ![t] = clock]
    /\ tpc' = [tpc EXCEPT ![t] = "acquire"]
    /\ UNCHANGED <<clock, cacheVars, lock, tcall, tlocal, tret, tgone, shadow, shadowRet, calls,
                   lruVars, pipeVars, importVars, extraVars>>

FirstStep(op) ==
    CASE op = "get" -> "get_lookup"
      [] op = "set" -> "set_prune"
      [] op = "configure" -> "cfg_assign"
      [] OTHER -> "reset_clear"

\* with self._lock:
ThreadAcquire(t) ==
    /\ tpc[t] = "acquire"
    /\ LockAvailable
    /\ lock' = t
    /\ tpc' = [tpc EXCEPT ![t] = FirstStep(tcall[t].op)]
    /\ UNCHANGED <<clock, cacheVars, tcall, tnow, tlocal, tret, tgone, shadow, shadowRet, calls,
                   lruVars, pipeVars, importVars, extraVars>>

\* leaving the `with` block with return value r, the statement having left es
Leave(t, r, es) ==
    /\ lock' = NoThread
    /\ tpc' = [tpc EXCEPT ![t] = "done"]
    /\ tret' = [tret EXCEPT ![t] = r]
    /\ tgone' = [tgone EXCEPT ![t] = tcall[t].key \notin KeysOf(es)]
    /\ LET res == ApplyCall(shadow, tcall[t], tnow[t]) IN
        /\ shadow' = res.cache
        /\ shadowRet' = [shadowRet EXCEPT ![t] = res.ret]

Stay(t, next) ==
    /\ tpc' = [tpc EXCEPT ![t] = next]
    /\ UNCHANGED <<lock, tret, tgone, shadow, shadowRet>>

\* get, first half: entry = self._entries.get(key); if entry is None: return None
GetLookup(t) ==
    /\ tpc[t] = "get_lookup"
    /\ LET found == Lookup(entries, tcall[t].key) IN
        /\ tlocal' = [tlocal EXCEPT ![t] = found]
        /\ IF found = <<>> THEN Leave(t, <<>>, entries) ELSE Stay(t, "get_finish")
    /\ UNCHANGED <<clock, cacheVars, tcall, tnow, calls, lruVars, pipeVars, importVars, extraVars>>

\* get, second half: an expired entry is popped and None returned; a live one is
\* stored with hit_count + 1, moved to the end, and its payload returned
GetFinish(t) ==
    /\ tpc[t] = "get_finish"
    /\ IF Expired(tlocal[t][1], tnow[t])
       THEN /\ entries' = Pop(entries, tcall[t].key)
            /\ Leave(t, <<>>, entries')
       ELSE LET updated == [tlocal[t][1] EXCEPT !.hit_count = @ + 1] IN
            /\ entries' = MoveToEnd(Store(entries, updated), tcall[t].key)
            /\ Leave(t, <<updated.payload>>, entries')
    /\ UNCHANGED <<clock, ttl_sec, max_entries, tcall, tnow, tlocal, calls, lruVars, pipeVars, importVars, extraVars>>

\* set, first half: self._prune_expired_locked(now=now)
SetPrune(t) ==
    /\ tpc[t] = "set_prune"
    /\ entries' = PruneExpiredLocked(entries, tnow[t])
    /\ Stay(t, "set_store")
    /\ UNCHANGED <<clock, ttl_sec, max_entries, tcall, tnow, tlocal, calls, lruVars, pipeVars, importVars, extraVars>>

\* set, second half: store the new entry, move_to_end, _prune_capacity_locked
SetStore(t) ==
    /\ tpc[t] = "set_store"
    /\ LET stored == Store(entries, NewEntry(tcall[t].key, tcall[t].payload, tnow[t], ttl_sec))
       IN entries' = PruneCapacityLocked(MoveToEnd(stored, tcall[t].key), max_entries)
    /\ Leave(t, <<>>, entries')
    /\ UNCHANGED <<clock, ttl_sec, max_entries, tcall, tnow, tlocal, calls, lruVars, pipeVars, importVars, extraVars>>

\* configure, first half: self._ttl_sec = ttl_sec; self._max_entries = max_entries
CfgAssign(t) ==
    /\ tpc[t] = "cfg_assign"
    /\ ttl_sec' = tcall[t].ttl_sec
    /\ max_entries' = tcall[t].max_entries
    /\ Stay(t, "cfg_prune")
    /\ UNCHANGED <<clock, entries, tcall, tnow, tlocal, calls, lruVars, pipeVars, importVars, extraVars>>

\* configure, second half: _prune_expired_locked() reads time.time() itself, then
\* _prune_capacity_locked()
CfgPrune(t) ==
    /\ tpc[t] = "cfg_prune"
    /\ tnow' = [tnow EXCEPT ![t] = clock]
    /\ entries' = PruneCapacityLocked(PruneExpiredLocked(entries, clock), max_entries)
    /\ lock' = NoThread
    /\ tpc' = [tpc EXCEPT ![t] = "done"]
    /\ tret' = [tret EXCEPT ![t] = <<>>]
    /\ tgone' = [tgone EXCEPT ![t] = TRUE]
    /\ LET res == ApplyCall(shadow, tcall[t], clock) IN
        /\ shadow' = res.cache
        /\ shadowRet' = [shadowRet EXCEPT ![t] = res.ret]
    /\ UNCHANGED <<clock, ttl_sec, max_entries, tcall, tlocal, calls, lruVars, pipeVars, importVars, extraVars>>

\* reset: self._entries.clear()
ResetClear(t) ==
    /\ tpc[t] = "reset_clear"
    /\ entries' = <<>>
    /\ Leave(t, <<>>, entries')
    /\ UNCHANGED <<clock, ttl_sec, max_entries, tcall, tnow, tlocal, calls, lruVars, pipeVars, importVars, extraVars>>

\* the caller takes the result and is free for its next call
ThreadReturn(t) ==
    /\ tpc[t] = "done"
    /\ tpc' = [tpc EXCEPT ![t] = "idle"]
    /\ tcall' = [tcall EXCEPT ![t] = NoCall]
    /\ tnow' = [tnow EXCEPT ![t] = 0]
    /\ tlocal' = [tlocal EXCEPT ![t] = <<>>]
    /\ tret' = [tret EXCEPT ![t] = <<>>]
    /\ tgone' = [tgone EXCEPT ![t] = FALSE]
    /\ shadowRet' = [shadowRet EXCEPT ![t] = <<>>]
    /\ UNCHANGED <<clock, cacheVars, lock, shadow, calls, lruVars, pipeVars, importVars, extraVars>>

\* time passes
Tick ==
    /\ clock < MaxClock
    /\ clock' = clock + 1
    /\ UNCHANGED <<cacheVars, threadVars, lruVars, pipeVars, importVars, extraVars>>

ThreadsIdle ==
    /\ lock = NoThread
    /\ tpc = [t \in Threads |-> "idle"]
    /\ tcall = [t \in Threads |-> NoCall]
    /\ tnow = [t \in Threads |-> 0]
    /\ tlocal = [t \in Threads |-> <<>>]
    /\ tret = [t \in Threads |-> <<>>]
    /\ tgone = [t \in Threads |-> FALSE]
    /\ shadowRet = [t \in Threads |-> <<>>]
    /\ calls = 0

NoLcall ==
    [op |-> "none", key |-> 0, now |-> 0, ret |-> <<>>, keysBefore |-> {},
     expiredBefore |-> {}, cap |-> 0, lru |-> <<>>, touched |-> <<>>]

\* ------------------------------------------------------------------------
\* InvoiceImportService.import_rows (import_service.py) called by two
\* request threads over one InMemoryInvoiceImportRepository
\* (repositories/memory.py).  Every repository method runs under the
\* repository's lock and is one step; import_rows holds no lock between them.
\* ------------------------------------------------------------------------
Importers == {1, 2}

IdemKeys == {"k1", "k2", " "}

\* idempotency_key.strip()
Strip(str) ==
    CASE str = " " -> ""
      [] str = " KG " -> "KG"
      [] str = " kg" -> "kg"
      [] OTHER -> str

\* normalize_name on the product names the model uses
normalize_name(value) ==
    CASE value \in {"Suc 750ml", "SUC 750ML"} -> "suc 750ml"
      [] value = "Apa" -> "apa"
      [] OTHER -> value

\* InvoiceImportService._row_warnings: _LIQUID_HINT_PATTERN on the names used
RowWarnings(name) ==
    IF name \in {"Suc 750ml", "SUC 750ML"} THEN <<"LIQUID_DENSITY_ASSUMPTION">> ELSE <<>>

\* config.fx_lei_to_eur and config.transport_rate_per_kg, in hundredths
FxLeiToEur == 1950
TransportRatePerKg == 150

\* floats that math.isfinite rejects, as numbers outside the range of the amounts
NaN == 999997
PosInf == 999999
NegInf == -999999
IsFinite(value) == value \notin {NaN, PosInf, NegInf}

\* the five keyword arguments of compute_pricing, in the order of its finiteness loop
PricingFields ==
    <<"line_total_lei", "quantity", "weight_kg", "fx_lei_to_eur", "transport_rate_per_kg">>

\* compute_pricing that skips the check of the transport rate
compute_pricing_unchecked_rate(line_total_lei, quantity, weight_kg, fx_lei_to_eur, transport_rate_per_kg) ==
    LET args == <<line_total_lei, quantity, weight_kg, fx_lei_to_eur>>
        bad == {i \in 1..4 : ~IsFinite(args[i])}
        error ==
            IF bad # {}
            THEN PricingFields[CHOOSE i \in bad : \A j \in bad : i <= j] \o " must be finite"
            ELSE IF quantity <= 0 THEN "quantity must be positive"
            ELSE IF line_total_lei < 0 THEN "line_total_lei cannot be negative"
            ELSE IF weight_kg <= 0 THEN "weight_kg must be positive"
            ELSE IF fx_lei_to_eur <= 0 THEN "fx_lei_to_eur must be positive"
            ELSE ""
    IN [error |-> error,
        computed |-> IF error # "" THEN <<>>
                     ELSE <<[line_total_lei |-> line_total_lei, quantity |-> quantity,
                             weight_kg |-> weight_kg, fx_lei_to_eur |-> fx_lei_to_eur,
                             transport_rate_per_kg |-> transport_rate_per_kg]>>]

\* compute_pricing: the message of the ValueError it raises, "" if none, and its
\* result, absent when it raises; the five prices it returns are functions of
\* its five arguments, which `computed` carries
compute_pricing(line_total_lei, quantity, weight_kg, fx_lei_to_eur, transport_rate_per_kg) ==
    LET args == <<line_total_lei, quantity, weight_kg, fx_lei_to_eur, transport_rate_per_kg>>
        bad == {i \in 1..5 : ~IsFinite(args[i])}
        error ==
            IF bad # {}
            THEN PricingFields[CHOOSE i \in bad : \A j \in bad : i <= j] \o " must be finite"
            ELSE IF quantity <= 0 THEN "quantity must be positive"
            ELSE IF line_total_lei < 0 THEN "line_total_lei cannot be negative"
            ELSE IF weight_kg <= 0 THEN "weight_kg must be positive"
            ELSE IF fx_lei_to_eur <= 0 THEN "fx_lei_to_eur must be positive"
            ELSE IF transport_rate_per_kg <= 0 THEN "transport_rate_per_kg must be positive"
            ELSE ""
    IN [error |-> error,
        computed |-> IF error # "" THEN <<>>
                     ELSE <<[line_total_lei |-> line_total_lei, quantity |-> quantity,
                             weight_kg |-> weight_kg, fx_lei_to_eur |-> fx_lei_to_eur,
                             transport_rate_per_kg |-> transport_rate_per_kg]>>]

\* `word in text` for the messages compute_pricing raises: a field name followed
\* by one of three endings; no field name occurs inside another or in an ending
Mentions(text, word) ==
    text \in {word \o " must be finite", word \o " must be positive",
              word \o " cannot be negative"}

\* InvoiceImportService._map_pricing_error
MapPricingError(text) ==
    IF Mentions(text, "quantity") THEN "INVALID_QUANTITY"
    ELSE IF Mentions(text, "line_total_lei") THEN "INVALID_LINE_TOTAL"
    ELSE IF Mentions(text, "weight_kg") THEN "INVALID_WEIGHT"
    ELSE IF Mentions(text, "fx_lei_to_eur") THEN "INVALID_FX_RATE"
    ELSE IF Mentions(text, "transport_rate_per_kg") THEN "INVALID_TRANSPORT_RATE"
    ELSE "COMPUTATION_ERROR"

\* InvoicePreviewRow
PreviewRow(row_id, name, barcode, quantity, line_total_lei, weight_kg) ==
    [row_id |-> row_id, name |-> name, barcode |-> barcode, quantity |-> quantity,
     line_total_lei |-> line_total_lei, weight_kg |-> weight_kg]

\* InvoiceImportRequest
ImportRequest(supplier, invoice_number, rows) ==
    [invoice_meta |-> [supplier |-> supplier, invoice_number |-> invoice_number],
     rows |-> rows]

\* the request payloads of the model
ImportPayloads ==
    {ImportRequest("S", "INV-1",
        <<PreviewRow("r1", "Suc 750ml", <<"5940">>, 2000, 200, <<750>>)>>),
     ImportRequest("S", "INV-2",
        <<PreviewRow("r1", "Apa", <<>>, 1000, 100, <<>>),
          PreviewRow("r2", "SUC 750ML", <<>>, 1000, 100, <<750>>)>>)}

\* sha256(json.dumps(payload.model_dump(mode="json"), sort_keys=True))
RequestHash(payload) == <<"sha256", payload>>

\* ImportRowResult
RowError(row, message, computed) ==
    [row_id |-> row.row_id, status |-> "error", action |-> <<>>, match_strategy |-> <<>>,
     product_id |-> <<>>, stock_movement_id |-> <<>>, computed |-> computed,
     messages |-> <<message>>, warnings |-> RowWarnings(row.name)]

RowOk(row, action, strategy, product_id, movement_id, computed) ==
    [row_id |-> row.row_id, status |-> "ok", action |-> <<action>>,
     match_strategy |-> <<strategy>>, product_id |-> <<product_id>>,
     stock_movement_id |-> <<movement_id>>, computed |-> computed,
     messages |-> <<>>, warnings |-> RowWarnings(row.name)]

\* repository reads
ProductById(ps, product_id) == SelectSeq(ps, LAMBDA p : p.product_id = product_id)

find_product_by_barcode(barcode) ==
    IF barcode \notin DOMAIN products_by_barcode THEN <<>>
    ELSE ProductById(products, products_by_barcode[barcode])

find_products_by_normalized_name(normalized_name) ==
    SelectSeq(products, LAMBDA p : p.normalized_name = normalized_name)

\* a repository that forgets what it stored
get_idempotent_result_forgetful(idempotency_key) == <<>>

get_idempotent_result(idempotency_key) ==
    IF idempotency_key \in DOMAIN idempotency THEN <<idempotency[idempotency_key]>> ELSE <<>>

\* ProductRecord built by create_product and update_product
ProductRecord(product_id, data) ==
    [product_id |-> product_id, barcode |-> data.barcode, name |-> data.name,
     normalized_name |-> normalize_name(data.name), supplier |-> data.supplier]

\* MatchResolution
NoMatch == [product |-> <<>>, strategy |-> <<>>, error_code |-> <<>>]

\* a fallback that settles for the first of several candidates
MatchByNameFirst(name) ==
    LET candidates == find_products_by_normalized_name(normalize_name(name)) IN
    IF Len(candidates) >= 1
    THEN [product |-> <<candidates[1]>>, strategy |-> <<"normalized_name">>, error_code |-> <<>>]
    ELSE NoMatch

\* the fallback of _find_match: find_products_by_normalized_name and its three cases
MatchByName(name) ==
    LET candidates == find_products_by_normalized_name(normalize_name(name)) IN
    IF Len(candidates) = 1
    THEN [product |-> <<candidates[1]>>, strategy |-> <<"normalized_name">>, error_code |-> <<>>]
    ELSE IF Len(candidates) > 1
    THEN [product |-> <<>>, strategy |-> <<>>, error_code |-> <<"AMBIGUOUS_NAME_MATCH">>]
    ELSE NoMatch

Idle ==
    [pc |-> "idle", call |-> 0, key |-> "", payload |-> <<>>, hash |-> <<>>, idx |-> 0,
     rows |-> <<>>, created_count |-> 0, updated_count |-> 0, stock_in_count |-> 0,
     error_count |-> 0, pricing |-> <<>>, match |-> NoMatch, product |-> <<>>,
     action |-> "", prior |-> {}, ret |-> <<>>]

ImportQuiet ==
    /\ products = <<>>
    /\ products_by_barcode = <<>>
    /\ movements = <<>>
    /\ idempotency = <<>>
    /\ product_seq = 1
    /\ movement_seq = 1
    /\ imp = [t \in Importers |-> Idle]
    /\ icalls = 0
    /\ applied = {}
    /\ completed = {}


\* the config the import service is built with: the defaults of InvoiceConfig
DefaultPricingConfig ==
    [fx_lei_to_eur |-> FxLeiToEur, transport_rate_per_kg |-> TransportRatePerKg]

\* no preview_pricing call yet
PvIdle ==
    [pc |-> "idle", payload |-> <<>>, idx |-> 0, rows |-> <<>>, ok_count |-> 0,
     needs_input_count |-> 0, error_count |-> 0, pricing |-> <<>>, ret |-> <<>>]

PreviewQuiet ==
    /\ cfg = DefaultPricingConfig
    /\ pv = PvIdle
    /\ pvlog = <<>>
    /\ pcalls = 0
    /\ probe = <<>>

PureQuiet ==
    /\ fin = <<>>
    /\ fout = <<>>

NoResult == [outcome |-> "none", error |-> "", cache_status |-> "", invoice |-> <<>>]

PipeQuiet ==
    /\ preq = <<>>
    /\ ppc = "idle"
    /\ trace = <<>>
    /\ llmCalls = 0
    /\ inv = <<>>
    /\ cacheKey = <<>>
    /\ cacheStatus = "none"
    /\ result = NoResult
    /\ nreq = 0
    /\ liveAtLookup = <<>>
    /\ cacheAtStart = <<>>
    /\ afterLookup = <<>>
    /\ returned = <<>>
    /\ okInvoices = {}
    /\ seen = {}
    /\ fresh = FALSE
    /\ prev = <<>>

LruQuiet ==
    /\ lcall = NoLcall
    /\ accessLog = <<>>
    /\ lastGet = <<>>
    /\ lcalls = 0

\* InMemoryExtractCache(ttl_sec=..., max_entries=...): an empty store
InitCache ==
    /\ clock = 0
    /\ entries = <<>>
    /\ ttl_sec \in 1..MaxTtl
    /\ max_entries \in 1..MaxCap
    /\ shadow = CacheRecord
    /\ ThreadsIdle
    /\ LruQuiet
    /\ PipeQuiet
    /\ ImportQuiet
    /\ PreviewQuiet
    /\ PureQuiet

NextCache ==
    \/ Tick
    \/ \E t \in Threads :
        \/ ThreadCall(t)
        \/ ThreadSample(t)
        \/ ThreadAcquire(t)
        \/ GetLookup(t)
        \/ GetFinish(t)
        \/ SetPrune(t)
        \/ SetStore(t)
        \/ CfgAssign(t)
        \/ CfgPrune(t)
        \/ ResetClear(t)
        \/ ThreadReturn(t)

SpecCache == InitCache /\ [][NextCache]_vars

\* ------------------------------------------------------------------------
\* A single caller using the cache, one whole call per step, with a record
\* of what the last call found and of the order in which keys were accessed.
\* ------------------------------------------------------------------------
LruKeySet == 1..LruKeys

\* the key of ks accessed longest ago, <<>> when ks is empty
LruOf(log, ks) ==
    LET s == SelectSeq(log, LAMBDA k : k \in ks) IN
    IF s = <<>> THEN <<>> ELSE <<s[1]>>

Touch(log, k) == SelectSeq(log, LAMBDA x : x # k) \o <<k>>

ExpiredKeys(es, now) ==
    {es[i].key : i \in {j \in 1..Len(es) : Expired(es[j], now)}}

LruStep(call) ==
    /\ lcalls < LruCalls
    /\ LET res == ApplyCall(CacheRecord, call, clock)
           hit == call.op = "get" /\ res.ret # <<>>
       IN /\ entries' = res.cache.entries
          /\ ttl_sec' = res.cache.ttl_sec
          /\ max_entries' = res.cache.max_entries
          /\ lcall' = [op |-> call.op, key |-> call.key, now |-> clock, ret |-> res.ret,
                       keysBefore |-> KeysOf(entries),
                       expiredBefore |-> ExpiredKeys(entries, clock),
                       cap |-> max_entries,
                       lru |-> LruOf(accessLog, KeysOf(entries)),
                       touched |-> lastGet]
          /\ accessLog' = IF hit \/ call.op = "set"
                          THEN Touch(accessLog, call.key) ELSE accessLog
          /\ lastGet' = IF hit THEN <<call.key>>
                        ELSE IF call.op = "set" THEN <<>> ELSE lastGet
    /\ lcalls' = lcalls + 1
    /\ UNCHANGED <<clock, threadVars, pipeVars, importVars, extraVars>>

LruGet ==
    \E k \in LruKeySet :
        LruStep([op |-> "get", key |-> k, payload |-> 0, ttl_sec |-> 0, max_entries |-> 0])

LruSet ==
    \E k \in LruKeySet, p \in Payloads :
        LruStep([op |-> "set", key |-> k, payload |-> p, ttl_sec |-> 0, max_entries |-> 0])

LruConfigure ==
    \E t \in 1..MaxTtl, m \in 1..LruCap :
        LruStep([op |-> "configure", key |-> 0, payload |-> 0, ttl_sec |-> t, max_entries |-> m])

LruReset ==
    LruStep([op |-> "reset", key |-> 0, payload |-> 0, ttl_sec |-> 0, max_entries |-> 0])

LruTick ==
    /\ clock < LruClock
    /\ clock' = clock + 1
    /\ UNCHANGED <<cacheVars, threadVars, lruVars, pipeVars, importVars, extraVars>>

InitLru ==
    /\ clock = 0
    /\ entries = <<>>
    /\ ttl_sec \in 1..MaxTtl
    /\ max_entries \in 1..LruCap
    /\ shadow = CacheRecord
    /\ ThreadsIdle
    /\ LruQuiet
    /\ PipeQuiet
    /\ ImportQuiet
    /\ PreviewQuiet
    /\ PureQuiet

NextLru == LruGet \/ LruSet \/ LruConfigure \/ LruReset \/ LruTick

SpecLru == InitLru /\ [][NextLru]_vars

\* ------------------------------------------------------------------------
\* Invoice data (models.py) and the row-level stages of the pipeline
\* ------------------------------------------------------------------------
ScoreScale == 10000
CapScore == 6000

\* unit-of-measure tags a row can carry; None is <<>>
UomTags == {<<>>, <<"KG">>, <<"BU">>}

\* the default of config.allowed_currencies, parsed
AllowedCurrencies == {"EUR", "USD", "MDL", "RUB", "RON"}

\* InvoiceConfig.get_allowed_currencies: the setting is the default (0) or "EUR" (1)
get_allowed_currencies(config) ==
    IF config.allowed_currencies = 0 THEN AllowedCurrencies ELSE {"EUR"}

\* InvoiceValidator.__init__: self.allowed_currencies, from the request's config
ValidatorAllowed == get_allowed_currencies(preq[1].config)

\* str.upper() on the currency codes and unit tags the model uses
Upper(str) ==
    CASE str = "mdl" -> "MDL"
      [] str \in {"eur", "EuR", "Eur"} -> "EUR"
      [] str = "usd" -> "USD"
      [] str = "gbp" -> "GBP"
      [] str \in {"kg", "Kg"} -> "KG"
      [] str = "bu" -> "BU"
      [] OTHER -> str

Min(a, b) == IF a <= b THEN a ELSE b
Max(a, b) == IF a >= b THEN a ELSE b
Abs(a) == IF a >= 0 THEN a ELSE 0 - a

\* quantity * unit_price and total_price, both in 1/100000 of a currency unit
Calculated(p) == p.quantity * p.unit_price
Discrepancy(p) == Abs(Calculated(p) - 1000 * p.total_price)

\* Product.validate_math: abs(calculated - total_price) > calculated * 0.05
\* caps the confidence at 0.6
ValidateMath(p) ==
    IF 100 * Discrepancy(p) > 5 * Calculated(p)
    THEN [p EXCEPT !.confidence_score = Min(@, CapScore)]
    ELSE p

\* the Field constraints of Product
ProductFieldsValid(p) ==
    /\ p.quantity > 0
    /\ p.unit_price > 0
    /\ p.total_price >= 0
    /\ p.confidence_score >= 0
    /\ p.confidence_score <= ScoreScale
    /\ (p.weight_kg_candidate # <<>> => p.weight_kg_candidate[1] > 0)
    /\ (p.parse_confidence # <<>> =>
            (p.parse_confidence[1] >= 0 /\ p.parse_confidence[1] <= ScoreScale))

\* InvoiceData(**payload): <<invoice>>, or <<>> when pydantic raises ValidationError
InvoiceFromPayload(d) ==
    IF /\ d.total_amount > 0
       /\ \A i \in 1..Len(d.products) : ProductFieldsValid(d.products[i])
    THEN <<[d EXCEPT !.products = [i \in 1..Len(d.products) |-> ValidateMath(d.products[i])]]>>
    ELSE <<>>

\* invoice_data.model_dump(mode="json"): the fields as a plain dict
ModelDump(invoice) ==
    [total_amount |-> invoice.total_amount,
     currency |-> invoice.currency,
     products |-> [i \in 1..Len(invoice.products) |->
        [raw_code |-> invoice.products[i].raw_code,
         name |-> invoice.products[i].name,
         uom |-> invoice.products[i].uom,
         quantity |-> invoice.products[i].quantity,
         unit_price |-> invoice.products[i].unit_price,
         total_price |-> invoice.products[i].total_price,
         confidence_score |-> invoice.products[i].confidence_score,
         row_id |-> invoice.products[i].row_id,
         weight_kg_candidate |-> invoice.products[i].weight_kg_candidate,
         size_token |-> invoice.products[i].size_token,
         parse_confidence |-> invoice.products[i].parse_confidence]]]

\* InvoiceValidator._validate_product_math: (is_valid, discrepancy);
\* MathValid is is_valid, the discrepancy enters MathFactor
MathValid(p) ==
    /\ Calculated(p) # 0
    /\ 100 * Discrepancy(p) <= 5 * Calculated(p)

\* score *= 1.0 - discrepancy / 20.0, discrepancy being 100.0 when
\* calculated_total is 0 and 100 * |calculated - total| / calculated otherwise
\* floor(ScoreScale * n / d) for 0 <= n < d, two decimal digits at a time
Ratio(n, d) == ((100 * n) \div d) * 100 + (100 * ((100 * n) % d)) \div d

\* a discrepancy of 20% or more makes the factor 0 or negative; the factors
\* that follow are positive and max(0.0, ...) returns 0.0 either way, so the
\* factor is written as 0 there
MathFactor(p, score) ==
    IF Calculated(p) = 0 THEN score * (1 - 5)
    ELSE IF 5 * Discrepancy(p) >= Calculated(p) THEN 0
    ELSE (score \div ScoreScale) * Ratio(Calculated(p) - 5 * Discrepancy(p), Calculated(p))

\* len(product.name)
NameLen(name) == Len(name)

\* InvoiceValidator._score_product
ScoreProduct(p) ==
    LET s1 == IF MathValid(p) THEN ScoreScale ELSE MathFactor(p, ScoreScale)
        s2 == IF NameLen(p.name) < 3 THEN (s1 * 7) \div 10 ELSE s1
        s3 == IF p.raw_code = <<>> THEN (s2 * 95) \div 100 ELSE s2
        s4 == IF p.quantity > 1000000 \/ p.quantity < 10 THEN (s3 * 8) \div 10 ELSE s3
        s5 == IF p.unit_price > 10000000 \/ p.unit_price < 1 THEN (s4 * 8) \div 10 ELSE s4
    IN Max(0, Min(ScoreScale, s5))

validate_invoice_case_sensitive(data, allowed) ==
    IF data.currency \notin allowed THEN [data |-> data, raised |-> TRUE]
    ELSE [data |-> [data EXCEPT
                      !.products = [i \in 1..Len(data.products) |->
                          [data.products[i] EXCEPT
                              !.confidence_score = ScoreProduct(data.products[i])]]],
          raised |-> FALSE]

\* validate_invoice on the object data of a validator whose allow-set is
\* allowed: the object as the call leaves it, and whether the call raised
validate_invoice(data, allowed) ==
    IF Upper(data.currency) \notin allowed THEN [data |-> data, raised |-> TRUE]
    ELSE [data |-> [data EXCEPT
                      !.currency = Upper(data.currency),
                      !.products = [i \in 1..Len(data.products) |->
                          [data.products[i] EXCEPT
                              !.confidence_score = ScoreProduct(data.products[i])]]],
          raised |-> FALSE]

ValidateInvoiceLenient(data) ==
    <<[data EXCEPT
         !.currency = Upper(data.currency),
         !.products = [i \in 1..Len(data.products) |->
             [data.products[i] EXCEPT !.confidence_score = ScoreProduct(data.products[i])]]]>>

\* InvoiceValidator.validate_invoice: <<invoice>>, or <<>> when it raises
\* ValueError for a currency outside the allowed set
ValidateInvoice(data) ==
    IF validate_invoice(data, ValidatorAllowed).raised THEN <<>>
    ELSE <<validate_invoice(data, ValidatorAllowed).data>>

IsKgExact(p) == p.uom = <<"KG">>

\* (product.uom or "").strip().upper() == "KG"
IsKg(p) == p.uom # <<>> /\ Upper(Strip(p.uom[1])) = "KG"

\* normalize_kg_weighed_rows
NormalizeKgWeighedRows(data) ==
    [data EXCEPT !.products = [i \in 1..Len(data.products) |->
        IF IsKg(data.products[i])
        THEN [data.products[i] EXCEPT
                !.weight_kg_candidate = <<data.products[i].quantity>>,
                !.quantity = 1000,
                !.unit_price = data.products[i].total_price,
                !.size_token = <<>>,
                !.parse_confidence = <<>>]
        ELSE data.products[i]]]

NoWeight == [weight_kg |-> <<>>, size_token |-> <<>>, parse_confidence |-> <<>>]

\* parse_weight_candidate on the product names the model uses
ParseWeightCandidate(name) ==
    CASE name = "Suc 750ml" ->
            [weight_kg |-> <<750>>, size_token |-> <<"750ML">>, parse_confidence |-> <<9800>>]
      [] name = "SUNCA 1 KG" ->
            [weight_kg |-> <<1000>>, size_token |-> <<"1KG">>, parse_confidence |-> <<9800>>]
      [] name \in {"200G UNT CIOCOLATA JLC", "CIOCOLATA ALBA 70% 200G"} ->
            [weight_kg |-> <<200>>, size_token |-> <<"200G">>, parse_confidence |-> <<9800>>]
      [] OTHER -> NoWeight

RowIdWithoutTotal(i, p) ==
    "r_" \o ToString(i - 1) \o "|" \o (IF p.raw_code = <<>> THEN "" ELSE p.raw_code[1])
         \o "|" \o p.name \o "|" \o ToString(p.quantity)

\* f"{x}" of a float: the shortest text that reads back as x, written here as
\* the decimal numeral of the scaled value
FloatText(x) == ToString(x)

\* "r_" + sha1(f"{idx}|{raw_code or ''}|{name}|{quantity}|{total_price}")[:12],
\* idx counted from 0; the digest is written as the text it digests
RowId(i, p) ==
    "r_" \o ToString(i - 1) \o "|" \o (IF p.raw_code = <<>> THEN "" ELSE p.raw_code[1])
         \o "|" \o p.name \o "|" \o FloatText(p.quantity) \o "|" \o FloatText(p.total_price)

\* add_row_metadata
AddRowMetadata(data) ==
    [data EXCEPT !.products = [i \in 1..Len(data.products) |->
        LET p == data.products[i]
            parsed == ParseWeightCandidate(p.name)
        IN IF IsKg(p) /\ p.weight_kg_candidate # <<>> /\ p.weight_kg_candidate # <<0>>
           THEN [p EXCEPT !.row_id = <<RowId(i, p)>>,
                          !.size_token = <<>>,
                          !.parse_confidence = <<>>]
           ELSE [p EXCEPT !.row_id = <<RowId(i, p)>>,
                          !.weight_kg_candidate = parsed.weight_kg,
                          !.size_token = parsed.size_token,
                          !.parse_confidence = parsed.parse_confidence]]]

\* ------------------------------------------------------------------------
\* InvoiceConfig and the cache key (services/extract_service.py)
\* ------------------------------------------------------------------------

\* the config fields build_extract_cache_signature reads
SigFields ==
    {"model", "temperature", "max_tokens", "scale_factor", "tolerance", "ocr_dpi",
     "ocr_languages", "ocr_config", "column_headers", "mock"}

\* each field, and allowed_currencies, holds its default (0) or one other value
\* (1); mock 1 is True, allowed_currencies 1 is "EUR"
SigValues ==
    {s \in [SigFields \cup {"allowed_currencies"} -> {0, 1}] :
        Cardinality({f \in DOMAIN s : s[f] = 1}) <= MaxFlips}

Configs ==
    {[model |-> s["model"], temperature |-> s["temperature"], max_tokens |-> s["max_tokens"],
      scale_factor |-> s["scale_factor"], tolerance |-> s["tolerance"], ocr_dpi |-> s["ocr_dpi"],
      ocr_languages |-> s["ocr_languages"], ocr_config |-> s["ocr_config"],
      column_headers |-> s["column_headers"], mock |-> s["mock"],
      allowed_currencies |-> s["allowed_currencies"],
      extract_cache_enabled |-> e, extract_cache_ttl_sec |-> t, extract_cache_max_entries |-> m] :
        s \in SigValues, e \in BOOLEAN, t \in 1..MaxTtl, m \in 1..MaxCap}

Files == 1..NumFiles

\* the values of the signature fields of a config, field by field
SigOf(config) == [f \in SigFields |-> config[f]]

\* json.dumps(payload, sort_keys=True) under sha256: the values in key order
build_extract_cache_signature_no_mock(config) ==
    <<"sha256", config.column_headers, config.max_tokens, config.model,
      config.ocr_config, config.ocr_dpi, config.ocr_languages, config.scale_factor, 1,
      config.temperature, config.tolerance>>

build_extract_cache_signature(config) ==
    <<"sha256", config.column_headers, config.max_tokens, config.mock, config.model,
      config.ocr_config, config.ocr_dpi, config.ocr_languages, config.scale_factor, 1,
      config.temperature, config.tolerance>>

\* f"{file_hash}:{signature}"
build_extract_cache_key(config, file_hash) ==
    <<file_hash, build_extract_cache_signature(config)>>

CacheEnabledAlways(config) == TRUE

CacheEnabled(config) == config.extract_cache_enabled

\* ------------------------------------------------------------------------
\* What parse_with_llm can return
\* ------------------------------------------------------------------------
Row(code, name, uom, q, up, total, conf) ==
    [raw_code |-> code, name |-> name, uom |-> uom, quantity |-> q, unit_price |-> up,
     total_price |-> total, confidence_score |-> conf, row_id |-> <<>>,
     weight_kg_candidate |-> <<>>, size_token |-> <<>>, parse_confidence |-> <<>>]

Invoice(total, currency, rows) ==
    [total_amount |-> total, currency |-> currency, products |-> rows]

\* LLMExtractor._get_mock_data
MockData ==
    Invoice(814284, "MDL",
        <<Row(<<"4840167001399">>, "200G UNT CIOCOLATA JLC", <<>>, 5000, 4343, 21715, 9500),
          Row(<<"4840167002500">>, "CIOCOLATA ALBA 70% 200G", <<>>, 4000, 4158, 16632, 9500)>>)

\* 2 x 1.00 = 2.00
RowPlain == Row(<<"594001">>, "Suc 750ml", <<"BU">>, 2000, 100, 200, 9000)
\* 2 x 1.00 against a printed total of 2.12
RowOff == Row(<<"594001">>, "Suc 750ml", <<"BU">>, 2000, 100, 212, 9000)
\* 0.878 kg at 149.92 = 150.04
RowKg == Row(<<"284367">>, "SUNCA 1 KG", <<"KG">>, 878, 14992, 15004, 9000)

\* 0.878 kg at 149.92 with a total of 0.00, which total_price >= 0 admits
RowKgZero == Row(<<"284367">>, "SUNCA 1 KG", <<"KG">>, 878, 14992, 0, 9000)

\* the normalized JSON objects the model lets the LLM answer with
LlmPayloads ==
    {Invoice(200, "mdl", <<RowPlain>>),
     Invoice(212, "MDL", <<RowOff>>),
     Invoice(15204, "EUR", <<RowKg, RowPlain>>),
     Invoice(200, "XXX", <<RowPlain>>),
     Invoice(100, "EUR", <<RowKgZero>>)}

\* the exceptions parse_with_llm lets through
LlmErrors == {"APIConnectionError", "LLMOutputIntegrityError"}

\* ------------------------------------------------------------------------
\* run_extract_pipeline, one request at a time, one step per stage
\* ------------------------------------------------------------------------
Request == preq[1]
Config == preq[1].config

Raised(err) == [outcome |-> "error", error |-> err, cache_status |-> "", invoice |-> <<>>]

\* ExtractResult(invoice_data, cache_status)
ExtractResult(invoice, status) ==
    [outcome |-> "ok", error |-> "", cache_status |-> status, invoice |-> <<invoice>>]

\* the statement that follows a stage in run_extract_pipeline
NextStageEnrichFirst(stage) ==
    CASE stage = "grid" -> "llm"
      [] stage = "llm" -> "enrich"
      [] stage = "enrich" -> "normalize"
      [] stage = "normalize" -> "validate"
      [] OTHER -> "write"

NextStage(stage) ==
    CASE stage = "grid" -> "llm"
      [] stage = "llm" -> "normalize"
      [] stage = "normalize" -> "validate"
      [] stage = "validate" -> "enrich"
      [] OTHER -> "write"

otherThanPipe == <<threadVars, lruVars, importVars, extraVars>>
ghostVars == <<returned, okInvoices, seen, fresh, prev>>

\* a request arrives; cache_key = None, and cache_status = "off" when caching is disabled
PipeStart ==
    /\ ppc \in {"idle", "done"}
    /\ nreq < MaxRequests
    /\ \E f \in Files, c \in Configs :
        /\ preq' = <<[file |-> f, config |-> c]>>
        /\ ppc' = IF CacheEnabled(c) THEN "configure" ELSE "grid"
        /\ cacheStatus' = IF CacheEnabled(c) THEN "none" ELSE "off"
        /\ fresh' = (CacheEnabled(c) /\ <<f, SigOf(c)>> \notin seen)
        /\ seen' = IF CacheEnabled(c) THEN seen \cup {<<f, SigOf(c)>>} ELSE seen
    /\ prev' = IF preq = <<>> THEN <<>>
               ELSE <<[request |-> Request, outcome |-> result.outcome, status |-> cacheStatus]>>
    /\ trace' = <<>>
    /\ llmCalls' = 0
    /\ inv' = <<>>
    /\ cacheKey' = <<>>
    /\ result' = NoResult
    /\ nreq' = nreq + 1
    /\ liveAtLookup' = <<>>
    /\ cacheAtStart' = <<CacheRecord>>
    /\ afterLookup' = <<entries>>
    /\ UNCHANGED <<clock, cacheVars, otherThanPipe, returned, okInvoices>>

\* cache_key = build_extract_cache_key(...); cache.configure(...)
PipeConfigure ==
    /\ ppc = "configure"
    /\ cacheKey' = <<build_extract_cache_key(Config, Request.file)>>
    /\ LET c == CacheConfigure(CacheRecord, Config.extract_cache_ttl_sec,
                               Config.extract_cache_max_entries, clock).cache
       IN /\ entries' = c.entries
          /\ ttl_sec' = c.ttl_sec
          /\ max_entries' = c.max_entries
    /\ ppc' = "lookup"
    /\ UNCHANGED <<clock, otherThanPipe, preq, trace, llmCalls, inv, cacheStatus, result, nreq,
                   liveAtLookup, cacheAtStart, afterLookup, ghostVars>>

\* cached_payload = cache.get(cache_key), and the return on a hit
PipeLookup ==
    /\ ppc = "lookup"
    /\ LET res == CacheGet(CacheRecord, cacheKey[1], clock)
           found == Lookup(entries, cacheKey[1])
           rebuilt == InvoiceFromPayload(res.ret[1])
       IN /\ entries' = res.cache.entries
          /\ afterLookup' = <<res.cache.entries>>
          /\ liveAtLookup' = IF found # <<>> /\ found[1].expires_at > clock
                             THEN <<found[1].payload>> ELSE <<>>
          /\ IF res.ret # <<>>
             THEN /\ cacheStatus' = "hit"
                  /\ ppc' = "done"
                  /\ result' = IF rebuilt = <<>> THEN Raised("ValidationError")
                               ELSE ExtractResult(rebuilt[1], "hit")
             ELSE /\ cacheStatus' = "miss"
                  /\ ppc' = "grid"
                  /\ result' = result
    /\ trace' = Append(trace, "lookup")
    /\ UNCHANGED <<clock, ttl_sec, max_entries, otherThanPipe, preq, llmCalls, inv, cacheKey,
                   nreq, cacheAtStart, ghostVars>>

\* the stage raised: the exception leaves run_extract_pipeline
Fail(stage, err) ==
    /\ ppc' = "done"
    /\ result' = Raised(err)
    /\ trace' = Append(trace, stage)
    /\ inv' = inv

StageFrame ==
    UNCHANGED <<clock, cacheVars, otherThanPipe, preq, cacheKey, cacheStatus, nreq,
                liveAtLookup, cacheAtStart, afterLookup, ghostVars>>

\* text_grid, _metadata = pdf_processor.extract_content(pdf_path)
PipeGrid ==
    /\ ppc = "grid"
    /\ \/ Fail("grid", "ValueError")
       \/ /\ ppc' = NextStage("grid")
          /\ trace' = Append(trace, "grid")
          /\ UNCHANGED <<inv, result>>
    /\ UNCHANGED llmCalls
    /\ StageFrame

\* invoice_data = llm_extractor.parse_with_llm(text_grid)
PipeLlm ==
    /\ ppc = "llm"
    /\ llmCalls' = llmCalls + 1
    /\ IF Config.mock = 1
       THEN /\ inv' = <<MockData>>
            /\ ppc' = NextStage("llm")
            /\ trace' = Append(trace, "llm")
            /\ UNCHANGED result
       ELSE \/ \E err \in LlmErrors : Fail("llm", err)
            \/ \E d \in LlmPayloads :
                 IF InvoiceFromPayload(d) = <<>> THEN Fail("llm", "ValidationError")
                 ELSE /\ inv' = InvoiceFromPayload(d)
                      /\ ppc' = NextStage("llm")
                      /\ trace' = Append(trace, "llm")
                      /\ UNCHANGED result
    /\ StageFrame

\* normalize_kg_weighed_rows(invoice_data)
PipeNormalize ==
    /\ ppc = "normalize"
    /\ inv' = <<NormalizeKgWeighedRows(inv[1])>>
    /\ ppc' = NextStage("normalize")
    /\ trace' = Append(trace, "normalize")
    /\ UNCHANGED <<llmCalls, result>>
    /\ StageFrame

\* validated_invoice = validator.validate_invoice(invoice_data)
PipeValidate ==
    /\ ppc = "validate"
    /\ IF ValidateInvoice(inv[1]) = <<>> THEN Fail("validate", "ValueError")
       ELSE /\ inv' = ValidateInvoice(inv[1])
            /\ ppc' = NextStage("validate")
            /\ trace' = Append(trace, "validate")
            /\ UNCHANGED result
    /\ UNCHANGED llmCalls
    /\ StageFrame

\* add_row_metadata(validated_invoice)
PipeEnrich ==
    /\ ppc = "enrich"
    /\ inv' = <<AddRowMetadata(inv[1])>>
    /\ ppc' = NextStage("enrich")
    /\ trace' = Append(trace, "enrich")
    /\ UNCHANGED <<llmCalls, result>>
    /\ StageFrame

\* if config.extract_cache_enabled: cache.set(cache_key, model_dump); return
PipeWrite ==
    /\ ppc = "write"
    /\ IF CacheEnabled(Config)
       THEN /\ entries' = CacheSet(CacheRecord, cacheKey[1], ModelDump(inv[1]), clock).cache.entries
            /\ trace' = Append(trace, "write")
            /\ returned' = [k \in DOMAIN returned \cup {cacheKey[1]} |->
                               IF k = cacheKey[1] THEN inv[1] ELSE returned[k]]
            /\ okInvoices' = okInvoices \cup {<<cacheKey[1], ModelDump(inv[1])>>}
       ELSE UNCHANGED <<entries, trace, returned, okInvoices>>
    /\ result' = ExtractResult(inv[1], cacheStatus)
    /\ ppc' = "done"
    /\ UNCHANGED <<clock, ttl_sec, max_entries, otherThanPipe, preq, llmCalls, inv, cacheKey,
                   cacheStatus, nreq, liveAtLookup, cacheAtStart, afterLookup, seen, fresh, prev>>

\* time passes; only configure, get and set read the clock, so time that passes
\* during the stages in between is taken just before the next of these reads it
PipeTick ==
    /\ clock < PipeClock
    /\ ppc \in {"idle", "done", "lookup", "write"}
    /\ clock' = clock + 1
    /\ UNCHANGED <<cacheVars, otherThanPipe, pipeVars, importVars, extraVars>>

\* the module-level cache of api.py before any request
Init ==
    /\ clock = 0
    /\ entries = <<>>
    /\ ttl_sec = MaxTtl
    /\ max_entries = MaxCap
    /\ shadow = CacheRecord
    /\ ThreadsIdle
    /\ LruQuiet
    /\ PipeQuiet
    /\ ImportQuiet
    /\ PreviewQuiet
    /\ PureQuiet

Next ==
    \/ PipeStart
    \/ PipeConfigure
    \/ PipeLookup
    \/ PipeGrid
    \/ PipeLlm
    \/ PipeNormalize
    \/ PipeValidate
    \/ PipeEnrich
    \/ PipeWrite
    \/ PipeTick

Spec == Init /\ [][Next]_vars

\* the last call was a set of a key the cache did not hold, made when the cache
\* held exactly max_entries entries
SetOnFullCache ==
    /\ lcall.op = "set"
    /\ Cardinality(lcall.keysBefore) = lcall.cap
    /\ lcall.key \notin lcall.keysBefore

\* C3 as stated: a set of a new key on a cache holding N = max_entries entries
\* removes exactly the least recently accessed entry, and a key whose last
\* access was a successful get is not the entry removed.
C3_Original ==
    SetOnFullCache =>
        /\ lcall.keysBefore \ KeysOf(entries) = {lcall.lru[1]}
        /\ (lcall.touched # <<>> /\ lcall.touched[1] \in lcall.keysBefore) =>
                lcall.touched[1] \in KeysOf(entries)

\* C3: a set of a new key on a cache holding N = max_entries entries, none of
\* them expired at the time the set reads, removes exactly the least recently
\* accessed entry and keeps the others and the new key; when N >= 2 a key whose
\* last access was a successful get is not the entry removed.
C3_EvictsLeastRecentlyAccessed ==
    (SetOnFullCache /\ lcall.expiredBefore = {}) =>
        /\ KeysOf(entries) = (lcall.keysBefore \ {lcall.lru[1]}) \cup {lcall.key}
        /\ (lcall.cap >= 2 /\ lcall.touched # <<>> /\ lcall.touched[1] \in lcall.keysBefore) =>
                lcall.touched[1] \in KeysOf(entries)

\* a full cache of two live entries, the older of which was just read by get,
\* received a new key
C3_Witness ==
    /\ SetOnFullCache
    /\ lcall.expiredBefore = {}
    /\ lcall.cap >= 2
    /\ lcall.touched # <<>>
    /\ lcall.touched[1] \in lcall.keysBefore
    /\ lcall.lru # lcall.touched
    /\ entries # <<>>

repoVars == <<products, products_by_barcode, movements, idempotency, product_seq, movement_seq>>
otherThanImport == <<cacheVars, threadVars, lruVars, pipeVars, extraVars>>

Raise(code) == <<[outcome |-> "error", code |-> code, response |-> <<>>]>>
Return(response) == <<[outcome |-> "ok", code |-> "", response |-> <<response>>]>>

\* the loop moves to the next row, or leaves for the summary after the last one
Advance(rec) ==
    IF rec.idx < Len(rec.payload[1].rows)
    THEN [rec EXCEPT !.idx = @ + 1, !.pc = "row", !.pricing = <<>>, !.match = NoMatch,
                     !.product = <<>>, !.action = ""]
    ELSE [rec EXCEPT !.pc = "save", !.pricing = <<>>, !.match = NoMatch,
                     !.product = <<>>, !.action = ""]

\* an error row that is appended without being counted
RowFailedUncounted(rec, message, computed) ==
    Advance([rec EXCEPT
        !.rows = Append(@, RowError(rec.payload[1].rows[rec.idx], message, computed))])

\* rows.append(ImportRowResult(status="error", ...)); error_count += 1; continue
RowFailed(rec, message, computed) ==
    Advance([rec EXCEPT
        !.rows = Append(@, RowError(rec.payload[1].rows[rec.idx], message, computed)),
        !.error_count = @ + 1])

\* the responses stored so far by calls made with this key and request hash
StoredFor(key, hash) ==
    {c.response : c \in {d \in completed : d.key = key /\ d.hash = hash}}

\* a request arrives: the blank-key check and request_hash
ImportCall(t) ==
    /\ imp[t].pc \in {"idle", "done"}
    /\ icalls < MaxImports
    /\ \E key \in IdemKeys, payload \in ImportPayloads :
        imp' = [imp EXCEPT ![t] =
            IF Strip(key) = ""
            THEN [Idle EXCEPT !.pc = "done", !.call = icalls + 1, !.key = key,
                              !.payload = <<payload>>, !.ret = Raise("INVALID_PAYLOAD")]
            ELSE [Idle EXCEPT !.pc = "check", !.call = icalls + 1, !.key = key,
                              !.payload = <<payload>>, !.hash = RequestHash(payload),
                              !.prior = StoredFor(key, RequestHash(payload))]]
    /\ icalls' = icalls + 1
    /\ UNCHANGED <<clock, repoVars, applied, completed, otherThanImport>>

\* existing = self.repository.get_idempotent_result(idempotency_key) and the
\* conflict / replay branches
ImportCheck(t) ==
    /\ imp[t].pc = "check"
    /\ LET existing == get_idempotent_result(imp[t].key) IN
       IF existing # <<>>
       THEN IF existing[1].request_hash # imp[t].hash
            THEN imp' = [imp EXCEPT ![t].pc = "done",
                                    ![t].ret = Raise("IDEMPOTENCY_CONFLICT")]
            ELSE imp' = [imp EXCEPT ![t].pc = "done",
                                    ![t].ret = Return(existing[1].response_payload)]
       ELSE imp' = [imp EXCEPT ![t].pc = "row", ![t].idx = 1]
    /\ UNCHANGED <<clock, repoVars, icalls, applied, completed, otherThanImport>>

\* one row up to the first repository call of _find_match
ImportRow(t) ==
    /\ imp[t].pc = "row"
    /\ LET rec == imp[t]
           row == rec.payload[1].rows[rec.idx]
           pricing == compute_pricing(row.line_total_lei, row.quantity,
                                      IF row.weight_kg = <<>> THEN 0 ELSE row.weight_kg[1],
                                      cfg.fx_lei_to_eur, cfg.transport_rate_per_kg)
           byBarcode == find_product_by_barcode(row.barcode[1])
       IN imp' = [imp EXCEPT ![t] =
            IF row.weight_kg = <<>> THEN RowFailed(rec, "MISSING_WEIGHT", <<>>)
            ELSE IF pricing.error # "" THEN RowFailed(rec, MapPricingError(pricing.error), <<>>)
            ELSE IF row.barcode # <<>> /\ row.barcode # <<"">>
                 THEN IF byBarcode # <<>>
                      THEN [rec EXCEPT !.pc = "upsert", !.pricing = pricing.computed,
                                       !.match = [product |-> byBarcode,
                                                  strategy |-> <<"barcode">>,
                                                  error_code |-> <<>>]]
                      ELSE [rec EXCEPT !.pc = "match_name", !.pricing = pricing.computed]
                 ELSE IF MatchByName(row.name).error_code # <<>>
                      THEN RowFailed(rec, MatchByName(row.name).error_code[1], pricing.computed)
                      ELSE [rec EXCEPT !.pc = "upsert", !.pricing = pricing.computed,
                                       !.match = MatchByName(row.name)]]
    /\ UNCHANGED <<clock, repoVars, icalls, applied, completed, otherThanImport>>

\* _find_match after a barcode miss: find_products_by_normalized_name
ImportMatchName(t) ==
    /\ imp[t].pc = "match_name"
    /\ LET rec == imp[t]
           row == rec.payload[1].rows[rec.idx]
           match == MatchByName(row.name)
       IN imp' = [imp EXCEPT ![t] =
            IF match.error_code # <<>> THEN RowFailed(rec, match.error_code[1], rec.pricing)
            ELSE [rec EXCEPT !.pc = "upsert", !.match = match]]
    /\ UNCHANGED <<clock, repoVars, icalls, applied, completed, otherThanImport>>

Applied(rec, kind) ==
    [call |-> rec.call, key |-> rec.key, hash |-> rec.hash, row |-> rec.idx, kind |-> kind]

\* self.repository.create_product(upsert_data) or update_product(product_id, upsert_data)
ImportUpsert(t) ==
    /\ imp[t].pc = "upsert"
    /\ LET rec == imp[t]
           row == rec.payload[1].rows[rec.idx]
           data == [name |-> row.name, barcode |-> row.barcode,
                    supplier |-> rec.payload[1].invoice_meta.supplier]
           barcoded == row.barcode # <<>> /\ row.barcode # <<"">>
       IN IF rec.match.product = <<>>
          THEN /\ products' = Append(products, ProductRecord(product_seq, data))
               /\ product_seq' = product_seq + 1
               /\ products_by_barcode' =
                      IF barcoded
                      THEN [b \in DOMAIN products_by_barcode \cup {row.barcode[1]} |->
                               IF b = row.barcode[1] THEN product_seq
                               ELSE products_by_barcode[b]]
                      ELSE products_by_barcode
               /\ imp' = [imp EXCEPT ![t].pc = "movement", ![t].product = <<product_seq>>,
                                     ![t].action = "created",
                                     ![t].created_count = @ + 1]
          ELSE /\ products' = [i \in 1..Len(products) |->
                      IF products[i].product_id = rec.match.product[1].product_id
                      THEN ProductRecord(products[i].product_id, data) ELSE products[i]]
               /\ product_seq' = product_seq
               /\ products_by_barcode' =
                      IF barcoded
                      THEN [b \in DOMAIN products_by_barcode \cup {row.barcode[1]} |->
                               IF b = row.barcode[1] THEN rec.match.product[1].product_id
                               ELSE products_by_barcode[b]]
                      ELSE products_by_barcode
               /\ imp' = [imp EXCEPT ![t].pc = "movement",
                                     ![t].product = <<rec.match.product[1].product_id>>,
                                     ![t].action = "updated",
                                     ![t].updated_count = @ + 1]
    /\ applied' = applied \cup {Applied(imp[t], "upsert")}
    /\ UNCHANGED <<clock, movements, idempotency, movement_seq, icalls, completed,
                   otherThanImport>>

\* self.repository.add_stock_movement_in(...) and the row's "ok" result
ImportMovement(t) ==
    /\ imp[t].pc = "movement"
    /\ LET rec == imp[t]
           row == rec.payload[1].rows[rec.idx]
           strategy == IF rec.action = "created" THEN "created"
                       ELSE IF rec.match.strategy # <<>> THEN rec.match.strategy[1]
                       ELSE "normalized_name"
       IN /\ movements' = Append(movements,
                [movement_id |-> movement_seq, product_id |-> rec.product[1],
                 quantity |-> row.quantity, source |-> "invoice_import",
                 invoice_number |-> rec.payload[1].invoice_meta.invoice_number,
                 type |-> "IN"])
          /\ movement_seq' = movement_seq + 1
          /\ imp' = [imp EXCEPT ![t] = Advance([rec EXCEPT
                        !.stock_in_count = @ + 1,
                        !.rows = Append(@, RowOk(row, rec.action, strategy, rec.product[1],
                                                 movement_seq, rec.pricing))])]
    /\ applied' = applied \cup {Applied(imp[t], "movement")}
    /\ UNCHANGED <<clock, products, products_by_barcode, idempotency, product_seq, icalls,
                   completed, otherThanImport>>

\* import_status, import_id, the response, save_idempotent_result and the return
ImportSave(t) ==
    /\ imp[t].pc = "save"
    /\ LET rec == imp[t]
           response ==
               [import_id |-> <<"imp_", clock>>,
                import_status |-> IF rec.error_count = Len(rec.rows) THEN "failed"
                                  ELSE IF rec.error_count > 0 THEN "partial_failed"
                                  ELSE "completed",
                rows |-> rec.rows,
                summary |-> [created_count |-> rec.created_count,
                             updated_count |-> rec.updated_count,
                             stock_in_count |-> rec.stock_in_count,
                             error_count |-> rec.error_count]]
       IN /\ idempotency' = [k \in DOMAIN idempotency \cup {rec.key} |->
                IF k = rec.key
                THEN [request_hash |-> rec.hash, response_payload |-> response]
                ELSE idempotency[k]]
          /\ imp' = [imp EXCEPT ![t].pc = "done", ![t].ret = Return(response)]
          /\ completed' = completed \cup
                 {[key |-> rec.key, hash |-> rec.hash, response |-> response]}
    /\ UNCHANGED <<clock, products, products_by_barcode, movements, product_seq, movement_seq,
                   icalls, applied, otherThanImport>>

\* datetime.now() moves on to another second
ImportTick ==
    /\ clock < ImportClock
    /\ clock' = clock + 1
    /\ UNCHANGED <<repoVars, imp, icalls, applied, completed, otherThanImport>>

InitImport ==
    /\ clock = 0
    /\ entries = <<>>
    /\ ttl_sec = MaxTtl
    /\ max_entries = MaxCap
    /\ shadow = CacheRecord
    /\ ThreadsIdle
    /\ LruQuiet
    /\ PipeQuiet
    /\ ImportQuiet
    /\ PreviewQuiet
    /\ PureQuiet

NextImport ==
    \/ ImportTick
    \/ \E t \in Importers :
        \/ ImportCall(t)
        \/ ImportCheck(t)
        \/ ImportRow(t)
        \/ ImportMatchName(t)
        \/ ImportUpsert(t)
        \/ ImportMovement(t)
        \/ ImportSave(t)

SpecImport == InitImport /\ [][NextImport]_vars

\* ------------------------------------------------------------------------
\* InvoiceImportService.preview_pricing (import_service.py) over the repository
\* the imports write.  preview_pricing only reads the repository; here a
\* preview runs between imports, which may overlap each other.  A direct
\* caller of compute_pricing stands beside the service.
\* ------------------------------------------------------------------------
\* the rows a preview request is made of, each with its own row_id
PreviewRowKinds ==
    {PreviewRow("a", "Apa", <<>>, 1000, 100, <<>>),
     PreviewRow("b", "Suc 750ml", <<"5940">>, 2000, 200, <<>>),
     PreviewRow("c", "Suc 750ml", <<"5940">>, 2000, 200, <<750>>),
     PreviewRow("d", "SUC 750ML", <<>>, 1000, 100, <<750>>),
     PreviewRow("e", "Apa", <<"">>, 1000, 100, <<500>>)}

\* InvoicePreviewPricingRequest: rows has min_length 1
PreviewPayloads ==
    {ImportRequest("S", "INV-9", rows) :
        rows \in UNION {[1..n -> PreviewRowKinds] : n \in 1..MaxRows}}

\* the values config.fx_lei_to_eur and config.transport_rate_per_kg may hold:
\* Field(gt=0) admits every positive float, infinity included
PricingConfigs ==
    [fx_lei_to_eur : {FxLeiToEur, PosInf}, transport_rate_per_kg : {TransportRatePerKg, PosInf}]

\* the arguments a direct caller passes to compute_pricing
ProbeValues == {100, 0, -1, NaN, PosInf}

\* PreviewPricingRowResult
PreviewResult(row, status, messages, computed, match_candidate) ==
    [row_id |-> row.row_id, status |-> status, messages |-> messages,
     warnings |-> RowWarnings(row.name), computed |-> computed,
     match_candidate |-> match_candidate]

\* MatchCandidate(strategy, product_id) if match.product and match.strategy else None
MatchCandidate(match) ==
    IF match.product # <<>> /\ match.strategy # <<>>
    THEN <<[strategy |-> match.strategy[1], product_id |-> match.product[1].product_id]>>
    ELSE <<>>

\* a loop that gives up at the first row in error
PreviewAppendAbortOnError(rec, row_result) ==
    LET counted == [rec EXCEPT
            !.rows = Append(@, row_result),
            !.ok_count = IF row_result.status = "ok" THEN @ + 1 ELSE @,
            !.needs_input_count = IF row_result.status = "needs_input" THEN @ + 1 ELSE @,
            !.error_count = IF row_result.status = "error" THEN @ + 1 ELSE @,
            !.pricing = <<>>]
    IN IF rec.idx < Len(rec.payload[1].rows) /\ row_result.status # "error"
       THEN [counted EXCEPT !.idx = @ + 1, !.pc = "row"]
       ELSE [counted EXCEPT !.pc = "return"]

\* rows.append(result), the counter of its status, and on to the next row
PreviewAppend(rec, row_result) ==
    LET counted == [rec EXCEPT
            !.rows = Append(@, row_result),
            !.ok_count = IF row_result.status = "ok" THEN @ + 1 ELSE @,
            !.needs_input_count = IF row_result.status = "needs_input" THEN @ + 1 ELSE @,
            !.error_count = IF row_result.status = "error" THEN @ + 1 ELSE @,
            !.pricing = <<>>]
    IN IF rec.idx < Len(rec.payload[1].rows)
       THEN [counted EXCEPT !.idx = @ + 1, !.pc = "row"]
       ELSE [counted EXCEPT !.pc = "return"]

\* the result of a row once _find_match has answered
PreviewMatched(row, computed, match) ==
    IF match.error_code # <<>>
    THEN PreviewResult(row, "error", <<match.error_code[1]>>, computed, <<>>)
    ELSE PreviewResult(row, "ok", <<>>, computed, MatchCandidate(match))

\* a check that takes every row for a weighed one
MissingWeightNever(row) == FALSE

\* row.weight_kg is None
MissingWeight(row) == row.weight_kg = <<>>

ImportersQuiet == \A t \in Importers : imp[t].pc \in {"idle", "done"}

previewFrame == <<clock, cacheVars, threadVars, lruVars, pipeVars, importVars, cfg, probe, pureVars>>

\* a preview request arrives
PreviewCall ==
    /\ pv.pc \in {"idle", "done"}
    /\ pcalls < MaxPreviews
    /\ probe = <<>>
    /\ ImportersQuiet
    /\ \E payload \in PreviewPayloads :
        pv' = [PvIdle EXCEPT !.pc = "row", !.payload = <<payload>>, !.idx = 1]
    /\ pvlog' = <<>>
    /\ pcalls' = pcalls + 1
    /\ UNCHANGED previewFrame

\* one row up to the first repository call of _find_match
PreviewRowStep ==
    /\ pv.pc = "row"
    /\ LET row == pv.payload[1].rows[pv.idx]
           pricing == compute_pricing(row.line_total_lei, row.quantity,
                                      IF row.weight_kg = <<>> THEN 0 ELSE row.weight_kg[1],
                                      cfg.fx_lei_to_eur, cfg.transport_rate_per_kg)
           byBarcode == find_product_by_barcode(row.barcode[1])
           priced == Append(pvlog, <<"compute_pricing", pv.idx>>)
       IN IF MissingWeight(row)
          THEN /\ pv' = PreviewAppend(pv,
                          PreviewResult(row, "needs_input", <<"MISSING_WEIGHT">>, <<>>, <<>>))
               /\ pvlog' = Append(pvlog, <<"result", pv.idx>>)
          ELSE IF pricing.error # ""
          THEN /\ pv' = PreviewAppend(pv,
                          PreviewResult(row, "error", <<MapPricingError(pricing.error)>>,
                                        <<>>, <<>>))
               /\ pvlog' = priced \o <<<<"result", pv.idx>>>>
          ELSE IF row.barcode # <<>> /\ row.barcode # <<"">>
          THEN IF byBarcode # <<>>
               THEN /\ pv' = PreviewAppend(pv,
                               PreviewMatched(row, pricing.computed,
                                   [product |-> byBarcode, strategy |-> <<"barcode">>,
                                    error_code |-> <<>>]))
                    /\ pvlog' = priced \o <<<<"find_product_by_barcode", pv.idx>>,
                                            <<"result", pv.idx>>>>
               ELSE /\ pv' = [pv EXCEPT !.pc = "match_name", !.pricing = pricing.computed]
                    /\ pvlog' = Append(priced, <<"find_product_by_barcode", pv.idx>>)
          ELSE /\ pv' = PreviewAppend(pv,
                          PreviewMatched(row, pricing.computed, MatchByName(row.name)))
               /\ pvlog' = priced \o <<<<"find_products_by_normalized_name", pv.idx>>,
                                       <<"result", pv.idx>>>>
    /\ UNCHANGED <<pcalls, previewFrame>>

\* _find_match after a barcode miss: find_products_by_normalized_name
PreviewMatchName ==
    /\ pv.pc = "match_name"
    /\ LET row == pv.payload[1].rows[pv.idx] IN
        /\ pv' = PreviewAppend(pv, PreviewMatched(row, pv.pricing, MatchByName(row.name)))
        /\ pvlog' = pvlog \o <<<<"find_products_by_normalized_name", pv.idx>>,
                               <<"result", pv.idx>>>>
    /\ UNCHANGED <<pcalls, previewFrame>>

\* return InvoicePreviewPricingResponse(pricing_constants, rows, summary)
PreviewReturn ==
    /\ pv.pc = "return"
    /\ pv' = [pv EXCEPT !.pc = "done", !.ret =
            <<[pricing_constants |-> cfg,
               rows |-> pv.rows,
               summary |-> [ok_count |-> pv.ok_count,
                            needs_input_count |-> pv.needs_input_count,
                            error_count |-> pv.error_count]]>>]
    /\ UNCHANGED <<pvlog, pcalls, previewFrame>>

\* compute_pricing called directly, as tests/test_pricing_validation.py does
PricingProbe ==
    /\ probe = <<>>
    /\ icalls = 0
    /\ pcalls = 0
    /\ \E args \in [1..5 -> ProbeValues] :
        probe' = <<[args |-> args,
                    out |-> compute_pricing(args[1], args[2], args[3], args[4], args[5])]>>
    /\ UNCHANGED <<pv, pvlog, pcalls, cfg, clock, cacheVars, threadVars, lruVars, pipeVars,
                   importVars, pureVars>>

InitPreview ==
    /\ clock = 0
    /\ entries = <<>>
    /\ ttl_sec = MaxTtl
    /\ max_entries = MaxCap
    /\ shadow = CacheRecord
    /\ ThreadsIdle
    /\ LruQuiet
    /\ PipeQuiet
    /\ ImportQuiet
    /\ PureQuiet
    /\ cfg \in PricingConfigs
    /\ pv = PvIdle
    /\ pvlog = <<>>
    /\ pcalls = 0
    /\ probe = <<>>

NextPreview ==
    \/ PreviewCall
    \/ PreviewRowStep
    \/ PreviewMatchName
    \/ PreviewReturn
    \/ PricingProbe
    \/ \E t \in Importers :
        \/ /\ icalls < MaxPreviewImports
           /\ probe = <<>>
           /\ pv.pc \in {"idle", "done"}
           /\ ImportCall(t)
        \/ ImportCheck(t)
        \/ ImportRow(t)
        \/ ImportMatchName(t)
        \/ ImportUpsert(t)
        \/ ImportMovement(t)
        \/ ImportSave(t)

SpecPreview == InitPreview /\ [][NextPreview]_vars

\* ------------------------------------------------------------------------
\* LLMExtractor._normalize_invoice_payload (llm_extractor.py), applied to the
\* JSON value the LLM returned.  A JSON value is <<"none">>, <<"num", n>>,
\* <<"str", s>>, <<"list", seq>> or <<"obj", fields>>; a key an object does not
\* have reads as <<"none">>, as dict.get gives.  Floats are in thousandths.
\* ------------------------------------------------------------------------
None == <<"none">>
Num(n) == <<"num", n>>
Str(str) == <<"str", str>>

\* float(cleaned) for the strings of the model, after strip and "," -> ".";
\* <<>> when the string is empty or float() raises ValueError
StrToFloat(str) ==
    CASE str = "2,5" -> <<2500>>
      [] str = " 1 " -> <<1000>>
      [] str = "0" -> <<0>>
      [] OTHER -> <<>>

\* LLMExtractor._to_float
ToFloat(value) ==
    CASE value[1] = "num" -> <<value[2]>>
      [] value[1] = "str" -> StrToFloat(value[2])
      [] OTHER -> <<>>

\* str(value) of a JSON number or string
PyStr(value) == IF value[1] = "num" THEN ToString(value[2]) ELSE value[2]

\* a product row as the LLM wrote it
RawRow(name, quantity, unit_price, total_price, confidence_score, raw_code) ==
    <<"obj", [name |-> name, quantity |-> quantity, unit_price |-> unit_price,
              total_price |-> total_price, confidence_score |-> confidence_score,
              raw_code |-> raw_code]>>

\* rows the normalizer keeps
GoodRows ==
    {RawRow(Str("Apa"), Num(2000), Num(100), Num(200), None, None),
     RawRow(Str("Suc"), Str("2,5"), Str(" 1 "), Str("0"), Num(1500), Num(594))}

\* rows the normalizer drops: not an object, no name, a number that does not
\* parse, a quantity or unit price that is not positive, a negative total
BadRows ==
    {Str("x"),
     RawRow(Str(" "), Num(2000), Num(100), Num(200), None, None),
     RawRow(Num(7), Num(2000), Num(100), Num(200), None, None),
     RawRow(Str("Apa"), Str("abc"), Num(100), Num(200), None, None),
     RawRow(Str("Apa"), Num(0), Num(100), Num(200), None, None),
     RawRow(Str("Apa"), Num(2000), Num(-100), Num(200), None, None),
     RawRow(Str("Apa"), Num(2000), None, Num(200), None, None),
     RawRow(Str("Apa"), Num(2000), Num(100), Num(-200), None, Str(" ")),
     RawRow(Str("Apa"), Num(2000), Num(100), <<"list", <<>>>>, None, None)}

RawRows == GoodRows \cup BadRows

\* the values of the "products" key: a list of rows, or no list at all
RawProducts ==
    {<<"list", rows>> : rows \in UNION {[1..n -> RawRows] : n \in 0..MaxProducts}}
        \cup {None, Str("n/a")}

\* the payloads handed to the normalizer: JSON objects, and a value that is none
RawPayloads ==
    {<<"obj", [products |-> ps, total_amount |-> ta, currency |-> cur, supplier |-> sup,
               invoice_number |-> None, date |-> None]>> :
        ps \in RawProducts, ta \in {Num(200), Str("2,5")}, cur \in {None, Str("MDL")},
        sup \in {None, Num(7)}}
        \cup {<<"list", <<>>>>}

\* a test that lets a row with a quantity of zero or less through
RowDroppedLax(product) ==
    \/ product[1] # "obj"
    \/ LET f == product[2]
           quantity == ToFloat(f.quantity)
           unit_price == ToFloat(f.unit_price)
           total_price == ToFloat(f.total_price)
           name == IF f.name[1] = "str" THEN Strip(f.name[2]) ELSE ""
       IN \/ name = ""
          \/ quantity = <<>>
          \/ unit_price = <<>>
          \/ total_price = <<>>
          \/ unit_price[1] <= 0
          \/ total_price[1] < 0

\* the row is skipped: not a dict, or the malformed-row test of the loop
RowDropped(product) ==
    \/ product[1] # "obj"
    \/ LET f == product[2]
           quantity == ToFloat(f.quantity)
           unit_price == ToFloat(f.unit_price)
           total_price == ToFloat(f.total_price)
           name == IF f.name[1] = "str" THEN Strip(f.name[2]) ELSE ""
       IN \/ name = ""
          \/ quantity = <<>>
          \/ unit_price = <<>>
          \/ total_price = <<>>
          \/ quantity[1] <= 0
          \/ unit_price[1] <= 0
          \/ total_price[1] < 0

\* the cleaned row appended for a row that is kept
CleanRow(product) ==
    LET f == product[2]
        confidence_raw == ToFloat(f.confidence_score)
        confidence == IF confidence_raw = <<>> THEN 500 ELSE confidence_raw[1]
        code_text == IF f.raw_code = None THEN "" ELSE Strip(PyStr(f.raw_code))
    IN [raw_code |-> IF code_text = "" THEN <<>> ELSE <<code_text>>,
        name |-> Strip(f.name[2]),
        quantity |-> ToFloat(f.quantity)[1],
        unit_price |-> ToFloat(f.unit_price)[1],
        total_price |-> ToFloat(f.total_price)[1],
        confidence_score |-> Max(0, Min(1000, confidence))]

\* a loop that keeps no row
CleanedProductsNone(products_raw) == <<>>

\* the loop over products_raw: the cleaned rows, in order
RECURSIVE CleanedProducts(_)
CleanedProducts(products_raw) ==
    IF products_raw = <<>> THEN <<>>
    ELSE IF RowDropped(Head(products_raw)) THEN CleanedProducts(Tail(products_raw))
    ELSE <<CleanRow(Head(products_raw))>> \o CleanedProducts(Tail(products_raw))

\* the loop over products_raw: dropped_products
DroppedProducts(products_raw) ==
    Cardinality({i \in 1..Len(products_raw) : RowDropped(products_raw[i])})

\* what a call ends in
Raises(kind, message) == [raised |-> kind, message |-> message, value |-> <<>>]
Returns(value) == [raised |-> "", message |-> "", value |-> <<value>>]

\* LLMExtractor._normalize_invoice_payload
NormalizeInvoicePayload(payload) ==
    IF payload[1] # "obj" THEN Raises("ValueError", "LLM payload must be a JSON object")
    ELSE
    LET f == payload[2]
        products_raw == IF f.products[1] = "list" THEN f.products[2] ELSE <<>>
        cleaned_products == CleanedProducts(products_raw)
        dropped_products == DroppedProducts(products_raw)
        total_amount == ToFloat(f.total_amount)
        Text(value) == IF value = None \/ value[1] = "str" THEN value ELSE Str(PyStr(value))
    IN IF dropped_products # 0 /\ cleaned_products = <<>>
       THEN Raises("LLMOutputIntegrityError",
                   "LLM returned " \o ToString(dropped_products) \o " malformed product rows")
       ELSE Returns([products |-> cleaned_products,
                     total_amount |-> IF total_amount # <<>> THEN Num(total_amount[1])
                                      ELSE f.total_amount,
                     currency |-> IF f.currency = None THEN Str("")
                                  ELSE Str(Strip(PyStr(f.currency))),
                     supplier |-> Text(f.supplier),
                     invoice_number |-> Text(f.invoice_number),
                     date |-> Text(f.date)])

normalizeFrame == <<clock, cacheVars, threadVars, lruVars, pipeVars, importVars, previewVars>>

\* invoice_data_dict = self._normalize_invoice_payload(invoice_data_dict)
NormalizeApply ==
    /\ fin # <<>>
    /\ fout = <<>>
    /\ fout' = <<NormalizeInvoicePayload(fin[1])>>
    /\ UNCHANGED <<fin, normalizeFrame>>

InitNormalize ==
    /\ clock = 0
    /\ entries = <<>>
    /\ ttl_sec = MaxTtl
    /\ max_entries = MaxCap
    /\ shadow = CacheRecord
    /\ ThreadsIdle
    /\ LruQuiet
    /\ PipeQuiet
    /\ ImportQuiet
    /\ PreviewQuiet
    /\ fin \in {<<payload>> : payload \in RawPayloads}
    /\ fout = <<>>

NextNormalize == NormalizeApply

SpecNormalize == InitNormalize /\ [][NextNormalize]_vars

\* ------------------------------------------------------------------------
\* validate_invoice, normalize_kg_weighed_rows and add_row_metadata called
\* directly on an invoice object, as tests/test_validator.py and
\* tests/test_row_enrichment_service.py call them
\* ------------------------------------------------------------------------

\* 24 x 6.58 = 157.92 against a VAT-inclusive total of 189.60
RowVat == Row(<<>>, "50G CEAI CATINA GHIMBIR RIOBA", <<>>, 24000, 658, 18960, 10000)
\* 10 x 10.00 = 100.00 against a total of 220.00
RowDouble == Row(<<"123">>, "Mismatch product", <<>>, 10000, 1000, 22000, 10000)
\* weighed rows whose tag is not yet in its normal form
RowKgLower == Row(<<"284367">>, "SUNCA 1 KG", <<"kg">>, 878, 14992, 15004, 9000)
RowKgPadded == Row(<<"284367">>, "SUNCA 1 KG", <<" KG ">>, 878, 14992, 15004, 9000)
\* rows that differ from RowPlain in raw_code or name only
RowNoCode == Row(<<>>, "Suc 750ml", <<"BU">>, 2000, 100, 200, 9000)
RowEmptyCode == Row(<<"">>, "Suc 750ml", <<"BU">>, 2000, 100, 200, 9000)
RowBarInCode == Row(<<"594001|Suc">>, "750ml", <<"BU">>, 2000, 100, 200, 9000)
RowBarInName == Row(<<"594001">>, "Suc|750ml", <<"BU">>, 2000, 100, 200, 9000)
\* RowPlain with another unit price and another quantity
RowPlainCheap == Row(<<"594001">>, "Suc 750ml", <<"BU">>, 2000, 99, 200, 9000)
RowPlainThree == Row(<<"594001">>, "Suc 750ml", <<"BU">>, 3000, 100, 200, 9000)

DirectRows ==
    {RowPlain, RowOff, RowKg, RowKgZero, RowVat, RowDouble, RowKgLower, RowKgPadded,
     RowNoCode, RowEmptyCode, RowBarInCode, RowBarInName, RowPlainCheap, RowPlainThree}

DirectCurrencies == {"eur", "EUR", "EuR", "mdl", "GBP", "XXX"}

\* get_allowed_currencies() of the default, of "EUR" and of "EUR,USD"
DirectAllowed == {AllowedCurrencies, {"EUR"}, {"EUR", "USD"}}

\* the invoices the calls are made on: one or two rows
DirectInvoices ==
    {Invoice(200, c, rows) :
        c \in DirectCurrencies,
        rows \in {<<r>> : r \in DirectRows} \cup {<<RowKg, r>> : r \in DirectRows}}

DirectCalls == {"validate_invoice", "normalize_kg_weighed_rows", "add_row_metadata"}

\* the object the last call was made on, as it was before that call
Before == fout[1].before
\* the object now
Data == fout[1].data
LastCall == IF fout[1].calls = <<>> THEN "" ELSE fout[1].calls[Len(fout[1].calls)]

directFrame == <<clock, cacheVars, threadVars, lruVars, pipeVars, importVars, previewVars>>

DirectStep(call, data, raised) ==
    /\ fout # <<>>
    /\ Len(fout[1].calls) < MaxDirectCalls
    /\ fout' = <<[data |-> data, before |-> Data, calls |-> Append(fout[1].calls, call),
                  raised |-> raised]>>
    /\ UNCHANGED <<fin, directFrame>>

\* validator.validate_invoice(data)
DirectValidate ==
    /\ fout # <<>>
    /\ DirectStep("validate_invoice", validate_invoice(Data, fin[1].allowed).data,
                  validate_invoice(Data, fin[1].allowed).raised)

\* normalize_kg_weighed_rows(invoice)
DirectNormalizeKg ==
    /\ fout # <<>>
    /\ DirectStep("normalize_kg_weighed_rows", NormalizeKgWeighedRows(Data), FALSE)

\* add_row_metadata(invoice)
DirectAddRowMetadata ==
    /\ fout # <<>>
    /\ DirectStep("add_row_metadata", AddRowMetadata(Data), FALSE)

InitDirect ==
    /\ clock = 0
    /\ entries = <<>>
    /\ ttl_sec = MaxTtl
    /\ max_entries = MaxCap
    /\ shadow = CacheRecord
    /\ ThreadsIdle
    /\ LruQuiet
    /\ PipeQuiet
    /\ ImportQuiet
    /\ PreviewQuiet
    /\ \E d \in DirectInvoices, a \in DirectAllowed :
        /\ fin = <<[data |-> d, allowed |-> a]>>
        /\ fout = <<[data |-> d, before |-> d, calls |-> <<>>, raised |-> FALSE]>>

NextDirect ==
    \/ DirectValidate
    \/ DirectNormalizeKg
    \/ DirectAddRowMetadata

SpecDirect == InitDirect /\ [][NextDirect]_vars

\* ------------------------------------------------------------------------
\* PDFProcessor._generate_text_grid (pdf_processor.py), called on a word list
\* ------------------------------------------------------------------------

\* a word of page.extract_words(): its text and its top and x0, in pixels
GridWords == [text : {"a", "bb"}, top : 0..MaxTop, x0 : {0, 20, 40}]

RECURSIVE WordLists(_)
WordLists(n) ==
    IF n = 0 THEN {<<>>}
    ELSE WordLists(n - 1) \cup
         {Append(ws, w) : ws \in {l \in WordLists(n - 1) : Len(l) = n - 1}, w \in GridWords}

\* config.tolerance, an int of 1..10
Tolerances == {1, 2}

\* config.scale_factor, 0.2 by default, as the divisor 5
ScaleDivisor == 5

MatchedTopNearest(lines, top, tolerance, k) ==
    IF \E j \in 1..Len(lines) : lines[j].top = top
    THEN CHOOSE j \in 1..Len(lines) : lines[j].top = top
    ELSE IF \E j \in 1..Len(lines) : Abs(lines[j].top - top) <= tolerance
    THEN CHOOSE j \in 1..Len(lines) :
            /\ Abs(lines[j].top - top) <= tolerance
            /\ \A i \in 1..Len(lines) :
                   Abs(lines[i].top - top) <= tolerance => lines[j].top <= lines[i].top
    ELSE 0

\* for existing_top in lines.keys(): the position of the first bucket within
\* tolerance of top, in insertion order, 0 when there is none
RECURSIVE MatchedTopFrom(_, _, _, _)
MatchedTopFrom(lines, top, tolerance, k) ==
    IF k > Len(lines) THEN 0
    ELSE IF Abs(lines[k].top - top) <= tolerance THEN k
    ELSE MatchedTopFrom(lines, top, tolerance, k + 1)

\* the dict lines after the first loop, as the sequence of its items in
\* insertion order
RECURSIVE Buckets(_, _, _)
Buckets(words, tolerance, lines) ==
    IF words = <<>> THEN lines
    ELSE LET word == Head(words)
             k == MatchedTopFrom(lines, word.top, tolerance, 1)
         IN Buckets(Tail(words), tolerance,
                IF k = 0 THEN Append(lines, [top |-> word.top, words |-> <<word>>])
                ELSE [lines EXCEPT ![k].words = Append(@, word)])

\* sorted(seq, key=...): stable insertion into an ascending sequence
RECURSIVE SortedPairs(_)
SortedPairs(pairs) ==
    IF pairs = <<>> THEN <<>>
    ELSE LET rest == SortedPairs(SubSeq(pairs, 1, Len(pairs) - 1))
             x == pairs[Len(pairs)]
             n == Cardinality({i \in 1..Len(rest) : rest[i][1] <= x[1]})
         IN SubSeq(rest, 1, n) \o <<x>> \o SubSeq(rest, n + 1, Len(rest))

\* sorted(seq, key=...), keys[i] being the key of seq[i]
SortedBy(seq, keys) ==
    LET sorted == SortedPairs([i \in 1..Len(seq) |-> <<keys[i], seq[i]>>])
    IN [i \in 1..Len(sorted) |-> sorted[i][2]]

RECURSIVE Spaces(_)
Spaces(n) == IF n = 0 THEN "" ELSE " " \o Spaces(n - 1)

\* the inner loop: line_str of the words of one line
RECURSIVE LineStr(_, _)
LineStr(line_words, line_str) ==
    IF line_words = <<>> THEN line_str
    ELSE LET word == Head(line_words)
             target_pos == word.x0 \div ScaleDivisor
             padding == Max(1, target_pos - Len(line_str))
         IN LineStr(Tail(line_words), line_str \o Spaces(padding) \o word.text)

RECURSIVE JoinLines(_)
JoinLines(grid_output) ==
    IF grid_output = <<>> THEN ""
    ELSE IF Len(grid_output) = 1 THEN grid_output[1]
    ELSE grid_output[1] \o "\n" \o JoinLines(Tail(grid_output))

\* _generate_text_grid: the lines in the order they are emitted, each with the
\* top of its bucket and its words in the order they are written, and the text
GenerateTextGrid(words, tolerance) ==
    LET lines == Buckets(words, tolerance, <<>>)
        sorted_tops == SortedBy(lines, [k \in 1..Len(lines) |-> lines[k].top])
        emitted == [k \in 1..Len(sorted_tops) |->
                       [top |-> sorted_tops[k].top,
                        words |-> SortedBy(sorted_tops[k].words,
                                      [j \in 1..Len(sorted_tops[k].words) |->
                                          sorted_tops[k].words[j].x0])]]
    IN [lines |-> emitted,
        text |-> JoinLines([k \in 1..Len(emitted) |-> LineStr(emitted[k].words, "")])]

\* page_text = self._generate_text_grid(words, page.width)
GridApply ==
    /\ fin # <<>>
    /\ fout = <<>>
    /\ fout' = <<GenerateTextGrid(fin[1].words, fin[1].tolerance)>>
    /\ UNCHANGED <<fin, directFrame>>

InitGrid ==
    /\ clock = 0
    /\ entries = <<>>
    /\ ttl_sec = MaxTtl
    /\ max_entries = MaxCap
    /\ shadow = CacheRecord
    /\ ThreadsIdle
    /\ LruQuiet
    /\ PipeQuiet
    /\ ImportQuiet
    /\ PreviewQuiet
    /\ \E ws \in WordLists(MaxWords), t \in Tolerances :
          fin = <<[words |-> ws, tolerance |-> t]>>
    /\ fout = <<>>

NextGrid == GridApply

SpecGrid == InitGrid /\ [][NextGrid]_vars

\* ------------------------------------------------------------------------
\* PDFProcessor.extract_content (pdf_processor.py), one step per page
\* ------------------------------------------------------------------------

\* len(words) < 10 sends a page to OCR
OcrThreshold == 10

\* config.tolerance by default
DefaultTolerance == 3

\* what is known of a page: how many words extract_words finds on it (or that
\* it raises), and whether page.to_image / image_to_string succeed on it
PageKinds ==
    [words : {0, 9, 10, 11}, extract : {"ok"}, ocr : {"ok", "raises"}]
        \cup {[words |-> 0, extract |-> "raises", ocr |-> "ok"]}

RECURSIVE Pdfs(_)
Pdfs(n) ==
    IF n = 0 THEN {<<>>}
    ELSE Pdfs(n - 1) \cup
         {Append(pages, pg) : pages \in {l \in Pdfs(n - 1) : Len(l) = n - 1}, pg \in PageKinds}

\* the words extract_words returns for a page of n words: five to a row
PageWords(n) ==
    [k \in 1..n |-> [text |-> "a", top |-> 10 * ((k - 1) \div 5), x0 |-> 20 * ((k - 1) % 5)]]

OcrFailed == "[OCR FAILED]"

PerformOcrRaising(page) ==
    IF page.ocr = "raises" THEN <<>> ELSE <<"FACTURA">>

\* _perform_ocr: <<text>>; an exception of to_image or image_to_string is caught
\* and the sentinel returned
PerformOcr(page) ==
    IF page.ocr = "raises" THEN <<OcrFailed>> ELSE <<"FACTURA">>

\* f"--- Page {i + 1} ({'OCR' if len(words) < 10 else 'Native'}) ---\n{page_text}"
PageBlock(i, nwords, page_text) ==
    "--- Page " \o ToString(i) \o " ("
        \o (IF nwords < OcrThreshold THEN "OCR" ELSE "Native") \o ") ---\n" \o page_text

NewMetadata == [pages_processed |-> 0, pages_ocr |-> 0, method |-> "native"]

\* with pdfplumber.open(file_path) as pdf: full_text_grid = []
PdfOpen ==
    /\ fin # <<>>
    /\ fout = <<>>
    /\ fout' = <<[pc |-> "loop", i |-> 1, full_text_grid |-> <<>>, metadata |-> NewMetadata,
                  raised |-> "", text |-> ""]>>
    /\ UNCHANGED <<fin, directFrame>>

\* one iteration of the loop over pdf.pages
PdfPage ==
    /\ fout # <<>>
    /\ fout[1].pc = "loop"
    /\ fout[1].i <= Len(fin[1].pages)
    /\ LET o == fout[1]
           page == fin[1].pages[o.i]
           counted == [o.metadata EXCEPT !.pages_processed = @ + 1]
           page_text == IF page.words < OcrThreshold THEN PerformOcr(page)
                        ELSE <<GenerateTextGrid(PageWords(page.words), DefaultTolerance).text>>
       IN IF page.extract = "raises" \/ page_text = <<>>
          THEN fout' = <<[o EXCEPT !.pc = "done", !.metadata = counted,
                                   !.raised = "ValueError"]>>
          ELSE fout' = <<[o EXCEPT
                  !.i = @ + 1,
                  !.metadata = IF page.words < OcrThreshold
                               THEN [counted EXCEPT !.pages_ocr = @ + 1, !.method = "hybrid"]
                               ELSE counted,
                  !.full_text_grid = Append(@, PageBlock(o.i, page.words, page_text[1]))]>>
    /\ UNCHANGED <<fin, directFrame>>

\* return "\n".join(full_text_grid), metadata
PdfReturn ==
    /\ fout # <<>>
    /\ fout[1].pc = "loop"
    /\ fout[1].i > Len(fin[1].pages)
    /\ fout' = <<[fout[1] EXCEPT !.pc = "done", !.text = JoinLines(fout[1].full_text_grid)]>>
    /\ UNCHANGED <<fin, directFrame>>

InitPdf ==
    /\ clock = 0
    /\ entries = <<>>
    /\ ttl_sec = MaxTtl
    /\ max_entries = MaxCap
    /\ shadow = CacheRecord
    /\ ThreadsIdle
    /\ LruQuiet
    /\ PipeQuiet
    /\ ImportQuiet
    /\ PreviewQuiet
    /\ \E pages \in Pdfs(MaxPages) : fin = <<[pages |-> pages]>>
    /\ fout = <<>>

NextPdf ==
    \/ PdfOpen
    \/ PdfPage
    \/ PdfReturn

SpecPdf == InitPdf /\ [][NextPdf]_vars

\* ------------------------------------------------------------------------
\* Properties of run_extract_pipeline
\* ------------------------------------------------------------------------
IsPrefix(s, t) == Len(s) <= Len(t) /\ s = SubSeq(t, 1, Len(s))

StageOrder == <<"lookup", "grid", "llm", "normalize", "validate", "enrich", "write">>

PastLookup == ppc \notin {"idle", "configure", "lookup"}

\* C18 as stated: every invoice a request returns, from a hit or from a full
\* run, carries an uppercase currency of the allow-set of that request's
\* configuration.
C18_ReturnedCurrencyAllowed ==
    (ppc = "done" /\ result.outcome = "ok") =>
        /\ Upper(result.invoice[1].currency) = result.invoice[1].currency
        /\ result.invoice[1].currency \in get_allowed_currencies(Config)

\* the Field constraints of Product the claim lists
ListedConstraints(p) ==
    /\ p.quantity > 0
    /\ p.unit_price > 0
    /\ p.total_price >= 0
    /\ p.confidence_score >= 0
    /\ p.confidence_score <= ScoreScale

MathOff(p) == 100 * Discrepancy(p) > 5 * Calculated(p)

\* C20 as stated: every product of a returned invoice whose quantity * unit_price
\* differs from total_price by more than 5% has a confidence_score of at most 0.6,
\* and no stage of the run removes a row from the invoice the LLM produced.
C20_MismatchCappedAndKept ==
    /\ []((ppc = "done" /\ result.outcome = "ok") =>
            \A i \in 1..Len(result.invoice[1].products) :
                MathOff(result.invoice[1].products[i]) =>
                    result.invoice[1].products[i].confidence_score <= CapScore)
    /\ [][(inv # <<>> /\ inv' # <<>>) =>
            Len(inv'[1].products) = Len(inv[1].products)]_vars

\* the products of b are those of a, in the same order, up to their confidence
SameProducts(a, b) ==
    /\ Len(b.products) = Len(a.products)
    /\ \A i \in 1..Len(a.products) :
           [b.products[i] EXCEPT !.confidence_score = a.products[i].confidence_score]
               = a.products[i]

\* C21: validate_invoice raises for a currency whose uppercase form is outside
\* the allow-set and leaves the invoice as it was; for a currency of the
\* allow-set in any casing ("eur", "EUR", "EuR") it sets the currency to the
\* uppercase form and returns the same products in the same order.
C21_CurrencyGate ==
    (fout # <<>> /\ LastCall = "validate_invoice") =>
        /\ IF Upper(Before.currency) \notin fin[1].allowed
           THEN fout[1].raised /\ Data = Before
           ELSE /\ ~fout[1].raised
                /\ Data.currency = Upper(Before.currency)
                /\ SameProducts(Before, Data)
        /\ Before.currency \in {"eur", "EUR", "EuR"} =>
               (~fout[1].raised /\ Data.currency = "EUR")
        /\ (Before.currency = "mdl" /\ "MDL" \notin fin[1].allowed) => fout[1].raised
        /\ Before.currency \in {"GBP", "XXX"} => fout[1].raised

\* the mixed-case code "EuR" was accepted by a validator configured with "EUR,USD"
C21_Witness ==
    /\ fout # <<>>
    /\ LastCall = "validate_invoice"
    /\ Before.currency = "EuR"
    /\ Data.currency = "EUR"
    /\ fin[1].allowed = {"EUR", "USD"}

\* the four fields of a row that enter its row_id
HashedFields(p) == <<p.raw_code, p.name, p.quantity, p.total_price>>

\* f"{raw_code or ''}|{name}": the text raw_code and name contribute to the digest
CodeAndName(p) == (IF p.raw_code = <<>> THEN "" ELSE p.raw_code[1]) \o "|" \o p.name

\* add_row_metadata has just been applied
Enriched == fout # <<>> /\ LastCall = "add_row_metadata"

\* C22 as stated: a row equal to a row of the invoice in raw_code, name, quantity
\* and total_price gets, at the same index, the same row_id, and a row that
\* differs from it in any of the four gets a different one.
C22_Original ==
    Enriched =>
        \A i \in 1..Len(Data.products), q \in DirectRows :
            (RowId(i, q) = Data.products[i].row_id[1])
                <=> (HashedFields(q) = HashedFields(Before.products[i]))

\* C22 amended: at the same index two rows get the same row_id exactly when they
\* agree in quantity, in total_price and in the text f"{raw_code or ''}|{name}";
\* so rows that differ in quantity or total_price always differ in row_id, while
\* a null and an empty raw_code, or a "|" that moves between raw_code and name,
\* give the same row_id; unit_price, unit tag and confidence do not enter.
C22_RowIdFromHashedText ==
    Enriched =>
        \A i \in 1..Len(Data.products), q \in DirectRows :
            /\ (RowId(i, q) = Data.products[i].row_id[1])
                   <=> /\ CodeAndName(q) = CodeAndName(Before.products[i])
                       /\ q.quantity = Before.products[i].quantity
                       /\ q.total_price = Before.products[i].total_price
            /\ (q.quantity # Before.products[i].quantity
                    \/ q.total_price # Before.products[i].total_price)
                   => RowId(i, q) # Data.products[i].row_id[1]
            /\ (i = 2 /\ Before.products[1] = Before.products[2])
                   => Data.products[1].row_id # Data.products[2].row_id

\* a row with an empty raw_code was given the row_id a row without raw_code gets,
\* and not the one of the row that differs from it in total_price only
C22_Witness ==
    /\ Enriched
    /\ Before.products[1] = RowEmptyCode
    /\ Data.products[1].row_id = <<RowId(1, RowNoCode)>>
    /\ Data.products[1].row_id # <<RowId(1, RowOff)>>

\* how many times normalize_kg_weighed_rows was called on the object
KgCalls ==
    Cardinality({k \in 1..Len(fout[1].calls) : fout[1].calls[k] = "normalize_kg_weighed_rows"})

RECURSIVE Opens(_, _, _)
Opens(words, tolerance, i) ==
    \A j \in 1..(i - 1) :
        Opens(words, tolerance, j) => Abs(words[j].top - words[i].top) > tolerance

\* the word that opened the bucket the i-th word belongs in: the earliest opener
\* within tolerance
Home(words, tolerance, i) ==
    CHOOSE j \in 1..i :
        /\ Opens(words, tolerance, j)
        /\ Abs(words[j].top - words[i].top) <= tolerance
        /\ \A k \in 1..(j - 1) :
               Opens(words, tolerance, k) => Abs(words[k].top - words[i].top) > tolerance

\* how many times word w occurs in the sequence ws
Occurrences(ws, w) == Cardinality({i \in 1..Len(ws) : ws[i] = w})

RECURSIVE OccurrencesInLines(_, _)
OccurrencesInLines(lines, w) ==
    IF lines = <<>> THEN 0
    ELSE Occurrences(lines[1].words, w) + OccurrencesInLines(Tail(lines), w)

\* C24: _generate_text_grid places every input word in exactly one line; a word
\* is in the line of the first bucket, in the order the buckets were opened,
\* whose opening word has a top within tolerance of its own, and opens a bucket
\* when there is none; so every word of a line is within tolerance of its
\* line's top, lines come in ascending order of top and the words of a line in
\* ascending order of x0.
C24_WordsBucketedInOrder ==
    (fin # <<>> /\ fout # <<>> /\ "words" \in DOMAIN fin[1]) =>
        LET words == fin[1].words
            tolerance == fin[1].tolerance
            lines == fout[1].lines
        IN /\ \A w \in GridWords : OccurrencesInLines(lines, w) = Occurrences(words, w)
           /\ \A i \in 1..Len(words) :
                  \E k \in 1..Len(lines) :
                      /\ lines[k].top = words[Home(words, tolerance, i)].top
                      /\ Occurrences(lines[k].words, words[i]) > 0
           /\ Len(lines) = Cardinality({i \in 1..Len(words) : Opens(words, tolerance, i)})
           /\ \A k \in 1..Len(lines) :
                  /\ \A j \in 1..Len(lines[k].words) :
                         Abs(lines[k].words[j].top - lines[k].top) <= tolerance
                  /\ \A j \in 1..(Len(lines[k].words) - 1) :
                         lines[k].words[j].x0 <= lines[k].words[j + 1].x0
                  /\ k < Len(lines) => lines[k].top < lines[k + 1].top

\* the words came with tops 4, 0, 2 under tolerance 2: the third is within
\* tolerance of both buckets and joined the one opened first, whose line is
\* emitted second, with its two words swapped into x0 order
C24_Witness ==
    /\ fin # <<>>
    /\ fout # <<>>
    /\ "words" \in DOMAIN fin[1]
    /\ fin[1].tolerance = 2
    /\ fin[1].words = <<[text |-> "a", top |-> 4, x0 |-> 40],
                         [text |-> "bb", top |-> 0, x0 |-> 0],
                         [text |-> "a", top |-> 2, x0 |-> 20]>>
    /\ Len(fout[1].lines) = 2
    /\ fout[1].lines[2].top = 4
    /\ fout[1].lines[2].words = <<fin[1].words[3], fin[1].words[1]>>
    /\ fout[1].text = " bb\n    a   a"

\* extract_content has finished on a document all of whose pages open and
\* yield their words
PdfDone ==
    /\ fout # <<>>
    /\ fout[1].pc = "done"
    /\ \A i \in 1..Len(fin[1].pages) : fin[1].pages[i].extract = "ok"

\* C25: when OCR fails on a page, extract_content still returns: that page
\* contributes "[OCR FAILED]" under its OCR marker, every page contributes one
\* block, in page order, and the metadata ends with pages_processed = number of
\* pages, pages_ocr = number of pages with fewer than 10 words, and method
\* "hybrid" exactly when pages_ocr > 0.
C25_OcrFailureDoesNotAbort ==
    PdfDone =>
        LET pages == fin[1].pages
            o == fout[1]
            scanned == {i \in 1..Len(pages) : pages[i].words < 10}
        IN /\ o.raised = ""
           /\ Len(o.full_text_grid) = Len(pages)
           /\ \A i \in 1..Len(pages) :
                  o.full_text_grid[i] =
                      IF i \in scanned /\ pages[i].ocr = "raises"
                      THEN "--- Page " \o ToString(i) \o " (OCR) ---\n[OCR FAILED]"
                      ELSE IF i \in scanned
                      THEN "--- Page " \o ToString(i) \o " (OCR) ---\nFACTURA"
                      ELSE "--- Page " \o ToString(i) \o " (Native) ---\n"
                               \o GenerateTextGrid(PageWords(pages[i].words), 3).text
           /\ o.text = JoinLines(o.full_text_grid)
           /\ o.metadata.pages_processed = Len(pages)
           /\ o.metadata.pages_ocr = Cardinality(scanned)
           /\ o.metadata.method = IF scanned # {} THEN "hybrid" ELSE "native"

\* OCR failed on the first of three pages; the native second page and the
\* scanned third page were still processed
C25_Witness ==
    /\ PdfDone
    /\ Len(fin[1].pages) = 3
    /\ fin[1].pages[1].words = 9
    /\ fin[1].pages[1].ocr = "raises"
    /\ fin[1].pages[2].words = 10
    /\ fin[1].pages[3] = [words |-> 0, extract |-> "ok", ocr |-> "ok"]
    /\ fout[1].metadata = [pages_processed |-> 3, pages_ocr |-> 2, method |-> "hybrid"]
    /\ fout[1].full_text_grid[1] = "--- Page 1 (OCR) ---\n[OCR FAILED]"

\* the position of the last access (a set, or a get that hit) of key k
LastAccess(log, k) == CHOOSE i \in 1..Len(log) : log[i] = k

\* the keys of the entries that have not expired at time now
LiveKeys(es, now) == {es[i].key : i \in {j \in 1..Len(es) : es[j].expires_at > now}}

\* C26: a configure call that finds more unexpired entries than its max_entries
\* M leaves exactly M entries, which are the M most recently accessed of the
\* unexpired ones (the others having been removed from the oldest end), each
\* with the payload and the expiry it had.
C26_ConfigureKeepsMostRecent ==
    [][(/\ lcalls' = lcalls + 1
        /\ lcall'.op = "configure"
        /\ Cardinality(LiveKeys(entries, clock)) > max_entries')
       => /\ Len(entries') = max_entries'
          /\ KeysOf(entries') \subseteq LiveKeys(entries, clock)
          /\ \A k \in KeysOf(entries'), j \in LiveKeys(entries, clock) \ KeysOf(entries') :
                 LastAccess(accessLog, j) < LastAccess(accessLog, k)
          /\ \A i \in 1..Len(entries') :
                 \E e \in {entries[n] : n \in 1..Len(entries)} :
                     /\ e.key = entries'[i].key
                     /\ e.payload = entries'[i].payload
                     /\ e.expires_at = entries'[i].expires_at]_vars

\* configure(max_entries=1) found three unexpired entries and kept the one set
\* last
C26_Witness ==
    /\ lcall.op = "configure"
    /\ Cardinality(lcall.keysBefore \ lcall.expiredBefore) = 3
    /\ max_entries = 1
    /\ Len(entries) = 1
    /\ accessLog[Len(accessLog)] = entries[1].key

\* total_price exceeds quantity * unit_price by 18% to 22%
VatInclusive(p) ==
    /\ 100 * (1000 * p.total_price - Calculated(p)) >= 18 * Calculated(p)
    /\ 100 * (1000 * p.total_price - Calculated(p)) <= 22 * Calculated(p)

\* total_price is more than double quantity * unit_price
MoreThanDouble(p) == 1000 * p.total_price > 2 * Calculated(p)

\* name of at least 3 characters, quantity within 0.01..1000, unit_price within
\* 0.01..100000
InNormalRanges(p) ==
    /\ NameLen(p.name) >= 3
    /\ p.quantity >= 10
    /\ p.quantity <= 1000000
    /\ p.unit_price >= 1
    /\ p.unit_price <= 10000000

\* C27 as stated: _score_product, as validate_invoice applies it to each row,
\* scores a row whose total_price is VAT-inclusive (about 20% above quantity *
\* unit_price, name and values in their normal ranges) above 0.9, and a row
\* whose total_price is more than double quantity * unit_price below 0.5.
C27_VatInclusiveScoredHigh ==
    (fout # <<>> /\ LastCall = "validate_invoice" /\ ~fout[1].raised) =>
        \A i \in 1..Len(Data.products) :
            /\ (VatInclusive(Before.products[i]) /\ InNormalRanges(Before.products[i]))
                   => Data.products[i].confidence_score > 9000
            /\ MoreThanDouble(Before.products[i])
                   => Data.products[i].confidence_score < 5000

\* C28: after every completed call, set and configure in particular, the cache
\* stores at most max_entries entries, max_entries being the value configured
\* last.
C28_EntriesWithinCapacity ==
    /\ Len(entries) <= max_entries
    /\ Cardinality(KeysOf(entries)) = Len(entries)

\* a set of a third key completed on a cache of capacity 2 that held two
\* unexpired entries, leaving two
C28_Witness ==
    /\ lcall.op = "set"
    /\ lcall.cap = 2
    /\ max_entries = 2
    /\ lcall.key \notin lcall.keysBefore
    /\ Cardinality(lcall.keysBefore \ lcall.expiredBefore) = 2
    /\ Len(entries) = 2

\* the barcodes at which find_product_by_barcode returns a product that no
\* longer carries them
StaleBarcodes ==
    {b \in DOMAIN products_by_barcode :
        \E i \in 1..Len(find_product_by_barcode(b)) :
            find_product_by_barcode(b)[i].barcode # <<b>>}

\* the pairs of product records that carry the same non-null barcode
SharedBarcodes ==
    {pair \in (1..Len(products)) \X (1..Len(products)) :
        /\ pair[1] < pair[2]
        /\ products[pair[1]].barcode # <<>>
        /\ products[pair[1]].barcode = products[pair[2]].barcode}

\* C29 as stated: after the create_product and update_product calls that
\* import_rows issues, find_product_by_barcode(b) returns a product only if
\* that product's current barcode is b, and no two product records carry the
\* same non-null barcode.
C29_BarcodeIndexConsistent ==
    /\ StaleBarcodes = {}
    /\ SharedBarcodes = {}

\* the callers holding a response that import_rows has just computed and
\* returned, as opposed to one replayed from the idempotency store
FreshlyReturned ==
    {t \in Importers : /\ imp[t].pc = "done"
                       /\ imp[t].ret # <<>>
                       /\ imp[t].ret[1].outcome = "ok"
                       /\ imp[t].rows # <<>>}

RowsWithStatus(response, status) ==
    {i \in 1..Len(response.rows) : response.rows[i].status = status}

\* the stock movements the repository holds under the id a result row names
MovementsOf(row_result) ==
    {k \in 1..Len(movements) : <<movements[k].movement_id>> = row_result.stock_movement_id}

\* the summary counts of a response agree with its rows and with the request
CountsAgree(request, response) ==
    LET summary == response.summary
        ok == Cardinality(RowsWithStatus(response, "ok"))
        errors == Cardinality(RowsWithStatus(response, "error"))
    IN /\ Len(response.rows) = Len(request.rows)
       /\ ok + errors = Len(response.rows)
       /\ summary.stock_in_count = summary.created_count + summary.updated_count
       /\ summary.stock_in_count = ok
       /\ summary.created_count + summary.updated_count + summary.error_count
              = Len(request.rows)

\* import_status names how many of the rows are errors
StatusAgrees(response) ==
    LET errors == Cardinality(RowsWithStatus(response, "error"))
        n == Len(response.rows)
    IN /\ response.import_status = "failed" <=> errors = n
       /\ response.import_status = "partial_failed" <=> (errors > 0 /\ errors < n)
       /\ response.import_status = "completed" <=> errors = 0

\* each ok row has one stock movement of type IN, for its product and the
\* quantity of its input row; the call added as many movements as it has ok rows
OneMovementPerOkRow(call, request, response) ==
    /\ \A i \in RowsWithStatus(response, "ok") :
        /\ Cardinality(MovementsOf(response.rows[i])) = 1
        /\ \A k \in MovementsOf(response.rows[i]) :
            /\ movements[k].type = "IN"
            /\ <<movements[k].product_id>> = response.rows[i].product_id
            /\ movements[k].quantity = request.rows[i].quantity
        /\ \A j \in RowsWithStatus(response, "ok") :
            i # j => response.rows[i].stock_movement_id # response.rows[j].stock_movement_id
    /\ Cardinality({a \in applied : a.call = call /\ a.kind = "movement"})
           = Cardinality(RowsWithStatus(response, "ok"))
    /\ Cardinality({a \in applied : a.kind = "movement"}) = Len(movements)

\* C30: every response import_rows has freshly computed has
\* stock_in_count = created_count + updated_count = the number of ok rows,
\* created_count + updated_count + error_count = the number of input rows,
\* exactly one stock movement of type IN added per ok row, and import_status
\* "failed" iff all rows are errors, "partial_failed" iff some but not all
\* are, "completed" iff none is.
C30_FreshResponseCounts ==
    \A t \in FreshlyReturned :
        /\ CountsAgree(imp[t].payload[1], imp[t].ret[1].response[1])
        /\ StatusAgrees(imp[t].ret[1].response[1])
        /\ OneMovementPerOkRow(imp[t].call, imp[t].payload[1], imp[t].ret[1].response[1])

\* a call returned a fresh two-row response with one error row and one ok row:
\* partial_failed, one product written, one stock movement
C30_Witness ==
    \E t \in FreshlyReturned :
        LET response == imp[t].ret[1].response[1] IN
        /\ Len(response.rows) = 2
        /\ response.import_status = "partial_failed"
        /\ response.summary.error_count = 1
        /\ response.summary.stock_in_count = 1
        /\ response.rows[1].status = "error"
        /\ response.rows[2].status = "ok"
        /\ MovementsOf(response.rows[2]) # {}

\* C1 as stated: a request that meets an unexpired entry for its key (left by an
\* earlier successful run for the same file hash and signature) completes with
\* cache_status "hit", calls the LLM zero times and returns the very invoice the
\* run that wrote the entry returned.
C1_HitReturnsFirstPayload ==
    (ppc = "done" /\ liveAtLookup # <<>>) =>
        /\ result.outcome = "ok"
        /\ result.cache_status = "hit"
        /\ llmCalls = 0
        /\ result.invoice = <<returned[cacheKey[1]]>>

\* C4: a request that raises leaves the cache as its lookup left it; every entry
\* of the cache is the dump of an invoice a completed run returned, so it passed
\* validation and enrichment; and a request repeating one that raised after a
\* miss is a miss again that calls the LLM once more.
C4_FailuresNeverCached ==
    /\ \A i \in 1..Len(entries) :
        /\ <<entries[i].key, entries[i].payload>> \in okInvoices
        /\ entries[i].payload.currency \in AllowedCurrencies
        /\ \A j \in 1..Len(entries[i].payload.products) :
               entries[i].payload.products[j].row_id # <<>>
    /\ (ppc = "done" /\ result.outcome = "error") => afterLookup = <<entries>>
    /\ (/\ prev # <<>>
        /\ prev[1].outcome = "error"
        /\ prev[1].status = "miss"
        /\ prev[1].request = Request
        /\ PastLookup) =>
            /\ cacheStatus = "miss"
            /\ (result.outcome = "ok" => llmCalls = 1)

\* a request that raised after a miss was repeated and completed as a miss with
\* one LLM call
C4_Witness ==
    /\ ppc = "done"
    /\ prev # <<>>
    /\ prev[1].outcome = "error"
    /\ prev[1].status = "miss"
    /\ prev[1].request = Request
    /\ result.outcome = "ok"
    /\ result.cache_status = "miss"
    /\ llmCalls = 1
    /\ Len(entries) = 1

\* the config with the value of every field in S replaced by the other value
Changed(config, S) ==
    [k \in DOMAIN config |-> IF k \in S THEN 1 - config[k] ELSE config[k]]

\* C5: the cache key a request builds differs from the key of the same file hash
\* under every config that differs from the request's in one or two signature
\* fields; and a request whose file hash and signature fields were not requested
\* before is a miss that calls the LLM, whatever runs under other configs have
\* cached.
C5_ConfigChangeForcesMiss ==
    preq # <<>> =>
        /\ ppc = "lookup" =>
               \A f \in SigFields, g \in SigFields :
                   build_extract_cache_key(Changed(Config, {f, g}), Request.file)
                       # cacheKey[1]
        /\ (fresh /\ PastLookup) =>
               /\ cacheStatus = "miss"
               /\ (result.outcome = "ok" => llmCalls = 1)

\* a run under a changed config completed as a miss right after a run for the
\* same file under the original config, whose entry is still in the cache
C5_Witness ==
    /\ ppc = "done"
    /\ fresh
    /\ result.outcome = "ok"
    /\ result.cache_status = "miss"
    /\ llmCalls = 1
    /\ prev # <<>>
    /\ prev[1].outcome = "ok"
    /\ prev[1].status = "miss"
    /\ prev[1].request.file = Request.file
    /\ SigOf(prev[1].request.config) # SigOf(Config)
    /\ Len(entries) = 2

\* C6: a request with extract_cache_enabled false builds no cache key, leaves
\* the cache exactly as it found it, runs neither lookup nor write, and when it
\* completes it has run every stage, called the LLM exactly once and reports "off".
C6_DisabledBypassesCache ==
    (preq # <<>> /\ ~Config.extract_cache_enabled) =>
        /\ cacheKey = <<>>
        /\ cacheAtStart = <<CacheRecord>>
        /\ cacheStatus = "off"
        /\ \A i \in 1..Len(trace) : trace[i] \notin {"lookup", "write"}
        /\ result.outcome = "ok" =>
               /\ llmCalls = 1
               /\ result.cache_status = "off"
               /\ trace = SubSeq(StageOrder, 2, 6)

\* a request with caching disabled completed while the cache held an entry
\* under the very key an enabled request would have used
C6_Witness ==
    /\ ppc = "done"
    /\ ~Config.extract_cache_enabled
    /\ result.outcome = "ok"
    /\ \E i \in 1..Len(entries) :
           entries[i].key = build_extract_cache_key(Config, Request.file)

\* C7: the stages a request has run are always an initial part of lookup, grid,
\* LLM, KG normalization, validation, enrichment, write (lookup and write only
\* with caching enabled); a completed request that was not a hit ran them all,
\* and every row_id it returns is the hash of the row's final quantity and
\* total_price, which for a KG row is the normalized quantity 1.
C7_StagesInOrder ==
    preq # <<>> =>
        LET expected == IF Config.extract_cache_enabled THEN StageOrder
                        ELSE SubSeq(StageOrder, 2, 6)
        IN /\ IsPrefix(trace, expected)
           /\ (result.outcome = "ok" /\ result.cache_status # "hit") =>
                  /\ trace = expected
                  /\ \A i \in 1..Len(result.invoice[1].products) :
                         LET p == result.invoice[1].products[i] IN
                         /\ p.row_id = <<RowId(i, p)>>
                         /\ IsKg(p) =>
                                /\ p.quantity = 1000
                                /\ p.unit_price = p.total_price
                                /\ p.weight_kg_candidate # <<>>

\* a completed miss returned a KG row whose measured 0.878 kg was moved out of
\* the quantity before its row_id was computed
C7_Witness ==
    /\ ppc = "done"
    /\ result.outcome = "ok"
    /\ result.cache_status = "miss"
    /\ \E i \in 1..Len(result.invoice[1].products) :
           /\ IsKg(result.invoice[1].products[i])
           /\ result.invoice[1].products[i].weight_kg_candidate = <<878>>


\* ------------------------------------------------------------------------
\* Properties of import_rows
\* ------------------------------------------------------------------------
\* C9 as stated: of the import_rows calls made with one idempotency key and one
\* payload, at most one applies the writes of a row: no product create/update
\* and no stock movement is made for the same key, payload and row by two calls.
C9_AppliedAtMostOnce ==
    \A a \in applied, b \in applied :
        (a.key = b.key /\ a.hash = b.hash /\ a.row = b.row /\ a.kind = b.kind) =>
            a.call = b.call

\* C10 as stated: a call that starts after an import_rows call with the same key
\* and a payload of the same hash has completed returns a response stored by
\* such a call, and makes no repository write.
C10_ReplayReturnsStored ==
    \A t \in Importers :
        (imp[t].pc = "done" /\ imp[t].prior # {}) =>
            /\ imp[t].ret[1].outcome = "ok"
            /\ imp[t].ret[1].response[1] \in StoredFor(imp[t].key, imp[t].hash)
            /\ \A a \in applied : a.call # imp[t].call

\* C11: an import_rows call that, at its idempotency check, finds a result stored
\* under its key with a request hash other than its own raises
\* IDEMPOTENCY_CONFLICT in that step and ends, and the step changes nothing in
\* the repository: products, barcode index, stock movements, the id counters and
\* the stored idempotent results (that of its key included) stay as they were.
C11_ConflictMutatesNothing ==
    [][\A t \in Importers :
        (/\ imp[t].pc = "check"
         /\ imp'[t] # imp[t]
         /\ imp[t].key \in DOMAIN idempotency
         /\ idempotency[imp[t].key].request_hash # imp[t].hash) =>
            /\ imp'[t].pc = "done"
            /\ imp'[t].ret = Raise("IDEMPOTENCY_CONFLICT")
            /\ UNCHANGED repoVars
            /\ applied' = applied]_vars

\* a call was rejected as a conflict while the repository holds a product, a
\* stock movement and the other payload's result under the call's key
C11_Witness ==
    \E t \in Importers :
        /\ imp[t].pc = "done"
        /\ imp[t].ret = Raise("IDEMPOTENCY_CONFLICT")
        /\ imp[t].key \in DOMAIN idempotency
        /\ idempotency[imp[t].key].request_hash # imp[t].hash
        /\ products # <<>>
        /\ movements # <<>>
        /\ \A a \in applied : a.call # imp[t].call

\* the row thread t is working on reaches the name fallback of _find_match now
\* (weight present, pricing computed, not resolved by barcode) and more than one
\* product carries its normalized name
AmbiguousNow(t) ==
    LET rec == imp[t] IN
    /\ rec.pc \in {"row", "match_name"}
    /\ LET row == rec.payload[1].rows[rec.idx] IN
        /\ row.weight_kg # <<>>
        /\ rec.pc = "row" =>
            /\ row.barcode \in {<<>>, <<"">>}
            /\ compute_pricing(row.line_total_lei, row.quantity, row.weight_kg[1],
                               cfg.fx_lei_to_eur, cfg.transport_rate_per_kg).error = ""
        /\ Cardinality({i \in 1..Len(products) :
                products[i].normalized_name = normalize_name(row.name)}) > 1

\* C14: when the name fallback of a row of import_rows finds more than one
\* product with the row's normalized name, the row's result is status error with
\* message AMBIGUOUS_NAME_MATCH, and that step writes nothing; and no row whose
\* result is an error ever had a product created or updated or a stock movement
\* added for it by its call.
C14_AmbiguousNameIsError ==
    /\ [][\A t \in Importers :
            (AmbiguousNow(t) /\ imp'[t] # imp[t]) =>
                /\ Len(imp'[t].rows) = Len(imp[t].rows) + 1
                /\ imp'[t].rows[Len(imp'[t].rows)].row_id =
                       imp[t].payload[1].rows[imp[t].idx].row_id
                /\ imp'[t].rows[Len(imp'[t].rows)].status = "error"
                /\ imp'[t].rows[Len(imp'[t].rows)].messages = <<"AMBIGUOUS_NAME_MATCH">>
                /\ imp'[t].rows[Len(imp'[t].rows)].product_id = <<>>
                /\ imp'[t].rows[Len(imp'[t].rows)].stock_movement_id = <<>>
                /\ imp'[t].error_count = imp[t].error_count + 1
                /\ UNCHANGED repoVars
                /\ applied' = applied]_vars
    /\ [](\A t \in Importers : \A i \in 1..Len(imp[t].rows) :
            imp[t].rows[i].status = "error" =>
                \A a \in applied : ~(a.call = imp[t].call /\ a.row = i))

\* a call finished with a row rejected as ambiguous while two products carry
\* that row's normalized name
C14_Witness ==
    \E t \in Importers :
        /\ imp[t].pc = "done"
        /\ imp[t].ret[1].outcome = "ok"
        /\ \E i \in 1..Len(imp[t].rows) :
            /\ imp[t].rows[i].messages = <<"AMBIGUOUS_NAME_MATCH">>
            /\ Len(find_products_by_normalized_name(
                   normalize_name(imp[t].payload[1].rows[i].name))) > 1

\* ------------------------------------------------------------------------
\* Properties of preview_pricing and of the rows of a batch
\* ------------------------------------------------------------------------
\* row i of the preview request has been dealt with
PreviewRowOver(i) ==
    /\ pv.payload # <<>>
    /\ i \in 1..Len(pv.payload[1].rows)
    /\ (pv.idx > i \/ pv.pc \in {"return", "done"})

\* the position in pvlog of the result of row i
ResultAt(i) == CHOOSE n \in 1..Len(pvlog) : pvlog[n] = <<"result", i>>

\* C12: in preview_pricing the result of every row whose weight_kg is null is
\* status needs_input with messages exactly <<"MISSING_WEIGHT">>, computed null and
\* match_candidate null, and no compute_pricing call and no repository lookup
\* was made for that row before the result was produced.
C12_MissingWeightNeedsInput ==
    \A i \in 1..MaxRows :
        (PreviewRowOver(i) /\ pv.payload[1].rows[i].weight_kg = <<>>) =>
            /\ Len(pv.rows) >= i
            /\ pv.rows[i].row_id = pv.payload[1].rows[i].row_id
            /\ pv.rows[i].status = "needs_input"
            /\ pv.rows[i].messages = <<"MISSING_WEIGHT">>
            /\ pv.rows[i].computed = <<>>
            /\ pv.rows[i].match_candidate = <<>>
            /\ \E n \in 1..Len(pvlog) : pvlog[n] = <<"result", i>>
            /\ \A n \in 1..Len(pvlog) :
                   (n < ResultAt(i) /\ pvlog[n][2] = i) => pvlog[n][1] = "result"
            /\ pv.pc = "done" => pv.ret[1].rows[i] = pv.rows[i]

\* a preview returned whose second row had no weight, after a first row that
\* was priced and looked up in a repository holding products
C12_Witness ==
    /\ pv.pc = "done"
    /\ Len(pv.payload[1].rows) = 2
    /\ pv.payload[1].rows[2].weight_kg = <<>>
    /\ pv.payload[1].rows[2].barcode # <<>>
    /\ pv.ret[1].rows[1].status = "ok"
    /\ pv.ret[1].rows[1].match_candidate # <<>>
    /\ pv.ret[1].rows[2].status = "needs_input"

\* the results answer the input rows one for one, in order, with their row_ids
OnePerRow(results, rows) ==
    /\ Len(results) = Len(rows)
    /\ \A i \in 1..Len(rows) : results[i].row_id = rows[i].row_id

\* C13: a preview_pricing call that returned, and an import_rows call that
\* returned a response, hold exactly one result per input row, in input order
\* and with the input row_id, whatever the number of rows in error; the preview
\* summary's three counts add up to the number of input rows; and import_rows
\* raises only for a blank key or an idempotency conflict, never for a row.
C13_OneResultPerRow ==
    /\ pv.pc = "done" =>
        /\ OnePerRow(pv.ret[1].rows, pv.payload[1].rows)
        /\ pv.ret[1].summary.ok_count + pv.ret[1].summary.needs_input_count
               + pv.ret[1].summary.error_count = Len(pv.payload[1].rows)
        /\ \A st \in {"ok", "needs_input", "error"} :
               Cardinality({i \in 1..Len(pv.ret[1].rows) : pv.ret[1].rows[i].status = st})
                   = (CASE st = "ok" -> pv.ret[1].summary.ok_count
                        [] st = "needs_input" -> pv.ret[1].summary.needs_input_count
                        [] OTHER -> pv.ret[1].summary.error_count)
    /\ \A t \in Importers : imp[t].pc = "done" =>
        IF imp[t].ret[1].outcome = "ok"
        THEN OnePerRow(imp[t].ret[1].response[1].rows, imp[t].payload[1].rows)
        ELSE imp[t].ret[1].code \in {"INVALID_PAYLOAD", "IDEMPOTENCY_CONFLICT"}

\* a preview of two rows returned with both in error, and an import of two rows
\* returned with both in error
C13_Witness ==
    /\ pv.pc = "done"
    /\ Len(pv.payload[1].rows) = 2
    /\ pv.ret[1].summary.error_count = 2
    /\ \E t \in Importers :
        /\ imp[t].pc = "done"
        /\ imp[t].ret[1].outcome = "ok"
        /\ Len(imp[t].payload[1].rows) = 2
        /\ imp[t].ret[1].response[1].summary.error_count = 2

\* argument i of compute_pricing meets its precondition: finite, and positive
\* (the line total: not negative)
ArgValid(i, value) ==
    /\ IsFinite(value)
    /\ IF PricingFields[i] = "line_total_lei" THEN value >= 0 ELSE value > 0

\* the error code the spec gives each field of compute_pricing
CodeOfField(field) ==
    CASE field = "quantity" -> "INVALID_QUANTITY"
      [] field = "line_total_lei" -> "INVALID_LINE_TOTAL"
      [] field = "weight_kg" -> "INVALID_WEIGHT"
      [] field = "fx_lei_to_eur" -> "INVALID_FX_RATE"
      [] field = "transport_rate_per_kg" -> "INVALID_TRANSPORT_RATE"

\* the message names the field: it starts with the field's name
NamesField(text, field) ==
    \E ending \in {" must be finite", " must be positive", " cannot be negative"} :
        text = field \o ending

\* the code a weighed row of the model gets from the service's config, "" if none
ConfigFault ==
    IF ~ArgValid(4, cfg.fx_lei_to_eur) THEN "INVALID_FX_RATE"
    ELSE IF ~ArgValid(5, cfg.transport_rate_per_kg) THEN "INVALID_TRANSPORT_RATE"
    ELSE ""

\* what the pricing of row `row` must have left in its result `res`
PricedAsConfig(res, row) ==
    IF row.weight_kg # <<>> /\ ConfigFault # ""
    THEN res.status = "error" /\ res.messages = <<ConfigFault>> /\ res.computed = <<>>
    ELSE \A f \in 1..5 : res.messages # <<CodeOfField(PricingFields[f])>>

\* C15: compute_pricing called with exactly one argument violating its
\* precondition (not finite; quantity, weight, fx rate or transport rate not
\* positive; line total negative) raises a ValueError whose message names that
\* argument and returns nothing, and _map_pricing_error maps the message to
\* the argument's own code; called with every argument valid it returns a
\* result.  In preview_pricing and import_rows a row whose pricing raised is
\* marked error with exactly that code and no computed prices, a row whose
\* pricing did not raise carries no pricing code, and the batch still holds one
\* result per row.
C15_PricingErrorsByField ==
    /\ probe # <<>> =>
        LET args == probe[1].args
            out == probe[1].out
            bad == {i \in 1..5 : ~ArgValid(i, args[i])}
        IN /\ bad = {} => (out.error = "" /\ out.computed # <<>>)
           /\ \A i \in 1..5 : bad = {i} =>
                /\ NamesField(out.error, PricingFields[i])
                /\ out.computed = <<>>
                /\ MapPricingError(out.error) = CodeOfField(PricingFields[i])
    /\ pv.pc = "done" =>
        /\ Len(pv.ret[1].rows) = Len(pv.payload[1].rows)
        /\ \A i \in 1..Len(pv.payload[1].rows) :
               PricedAsConfig(pv.ret[1].rows[i], pv.payload[1].rows[i])
    /\ \A t \in Importers : (imp[t].pc = "done" /\ imp[t].ret[1].outcome = "ok") =>
        /\ Len(imp[t].ret[1].response[1].rows) = Len(imp[t].payload[1].rows)
        /\ \A i \in 1..Len(imp[t].payload[1].rows) :
               PricedAsConfig(imp[t].ret[1].response[1].rows[i], imp[t].payload[1].rows[i])

\* compute_pricing was called with a zero transport rate and everything else
\* valid, and raised
C15_Witness ==
    /\ probe # <<>>
    /\ {i \in 1..5 : ~ArgValid(i, probe[1].args[i])} = {5}
    /\ probe[1].args[5] = 0
    /\ probe[1].out.error = "transport_rate_per_kg must be positive"

\* ------------------------------------------------------------------------
\* Properties of _normalize_invoice_payload
\* ------------------------------------------------------------------------
\* the payload given to the normalizer is a JSON object
ObjectPayload == fin # <<>> /\ fin[1][1] = "obj"

\* the rows of its products array (none when the key holds no list)
GivenRows ==
    IF fin[1][2].products[1] = "list" THEN fin[1][2].products[2] ELSE <<>>

\* the rows among them that are well formed, in their order, and the number of
\* the others
UsableRows == SelectSeq(GivenRows, LAMBDA r : r \in GoodRows)
MalformedCount == Cardinality({i \in 1..Len(GivenRows) : GivenRows[i] \in BadRows})

\* C16: given a JSON object whose products array has at least one malformed row
\* (not an object, empty name, unparseable or missing quantity / unit_price /
\* total_price, quantity <= 0, unit_price <= 0, total_price < 0) and at least
\* one well-formed row, _normalize_invoice_payload returns, and its products are
\* exactly the well-formed rows in their original order; if every row of a
\* non-empty array is malformed it raises LLMOutputIntegrityError with the
\* number of dropped rows in the message.
C16_DropsMalformedRows ==
    (fout # <<>> /\ ObjectPayload /\ MalformedCount >= 1) =>
        IF Len(UsableRows) >= 1
        THEN /\ fout[1].raised = ""
             /\ Len(fout[1].value[1].products) = Len(UsableRows)
             /\ \A j \in 1..Len(UsableRows) :
                    /\ fout[1].value[1].products[j].name = UsableRows[j][2].name[2]
                    /\ fout[1].value[1].products[j].quantity
                           = ToFloat(UsableRows[j][2].quantity)[1]
                    /\ fout[1].value[1].products[j].quantity > 0
                    /\ fout[1].value[1].products[j].unit_price > 0
                    /\ fout[1].value[1].products[j].total_price >= 0
        ELSE /\ fout[1].raised = "LLMOutputIntegrityError"
             /\ fout[1].message =
                    "LLM returned " \o ToString(MalformedCount) \o " malformed product rows"
             /\ fout[1].value = <<>>

\* a payload of a malformed row followed by a well-formed one was normalized to
\* the one row
C16_Witness ==
    /\ fout # <<>>
    /\ ObjectPayload
    /\ Len(GivenRows) = 2
    /\ GivenRows[1] \in BadRows
    /\ GivenRows[2] \in GoodRows
    /\ fout[1].raised = ""
    /\ Len(fout[1].value[1].products) = 1

\* C17 as stated: for a JSON object the normalizer raises the integrity error
\* exactly when no well-formed product row remains, and raises nothing else.
C17_Original ==
    (fout # <<>> /\ ObjectPayload) =>
        /\ (Len(UsableRows) = 0) <=> (fout[1].raised = "LLMOutputIntegrityError")
        /\ fout[1].raised \in {"", "LLMOutputIntegrityError"}

\* C17: for a JSON object the normalizer raises the integrity error exactly when
\* at least one row was dropped and no row remains, and raises nothing else;
\* when the products array is empty, missing or not a list it returns an
\* invoice payload with no products.
C17_RaisesOnlyWhenAllDropped ==
    (fout # <<>> /\ ObjectPayload) =>
        /\ (MalformedCount >= 1 /\ Len(UsableRows) = 0)
               <=> (fout[1].raised = "LLMOutputIntegrityError")
        /\ fout[1].raised \in {"", "LLMOutputIntegrityError"}
        /\ (Len(GivenRows) = 0) =>
               (fout[1].raised = "" /\ fout[1].value[1].products = <<>>)

\* an object with an empty products array was normalized to a payload with no
\* products
C17_Witness ==
    /\ fout # <<>>
    /\ ObjectPayload
    /\ fin[1][2].products = <<"list", <<>>>>
    /\ fout[1].raised = ""
    /\ fout[1].value[1].products = <<>>

\* C2: a get returns a payload only if the entry it found expires strictly after
\* the time that get read (its `now`), and the payload is that entry's; a get that
\* finds an entry expired at that time returns None and leaves the key absent.
\* This holds for every interleaving of the threads and every advance of the clock.
C2_GetNeverReturnsExpired ==
    \A t \in Threads :
        (tpc[t] = "done" /\ tcall[t].op = "get") =>
            /\ (tret[t] # <<>> =>
                    /\ tlocal[t] # <<>>
                    /\ tlocal[t][1].expires_at > tnow[t]
                    /\ tret[t] = <<tlocal[t][1].payload>>)
            /\ ((tlocal[t] # <<>> /\ tlocal[t][1].expires_at <= tnow[t]) =>
                    (tret[t] = <<>> /\ tgone[t]))

\* a get found an entry that had expired, while the clock has moved on since the
\* other thread wrote it
C2_Witness ==
    \E t \in Threads :
        /\ tpc[t] = "done"
        /\ tcall[t].op = "get"
        /\ tlocal[t] # <<>>
        /\ tlocal[t][1].expires_at <= tnow[t]
        /\ tret[t] = <<>>

\* C8: whenever the lock is free the cache is exactly what the calls, applied
\* one at a time in the order they left the lock, produce, and every call returns
\* what it returns in that sequential order.
C8_Linearizable ==
    /\ (lock = NoThread => CacheRecord = shadow)
    /\ \A t \in Threads : tpc[t] = "done" => tret[t] = shadowRet[t]

\* one thread is half way through set while the other, which has already read
\* the time for its get, waits for the lock
C8_Witness ==
    \E t \in Threads, u \in Threads :
        /\ t # u
        /\ tpc[t] = "set_store"
        /\ lock = t
        /\ tpc[u] = "acquire"
        /\ tcall[u].op = "get"

=============================================================================
